---- MODULE Spec2Model ----
(***************************************************************************)
(* A model of the nl2sql agentic investigation back end:                   *)
(*   - AgenticGeminiClient.autonomous_investigation (the orchestrator      *)
(*     loop of backend/app/agentic_client.py),                             *)
(*   - ToolRegistry.execute_tool and BaseTool.safe_execute,                *)
(*   - DatabaseManager.is_safe_sql / add_safety_limits and the tools that  *)
(*     send SQL text to the database.                                      *)
(***************************************************************************)
EXTENDS Integers, Sequences, FiniteSets, TLC

(***************************************************************************)
(* Bounds of the model                                                     *)
(***************************************************************************)
\* longest list of parts in one model response
MaxParts == 2
\* most text parts recorded as steps by the loop of one session
MaxTextSteps == 1
\* most tokens concatenated into one SQL text given to the gate
MaxTokens == 3

(***************************************************************************)
(* Program constants of the orchestrator loop                              *)
(***************************************************************************)
max_iterations == 8
max_retries == 2
\* the empty-call streak that ends the loop (agentic_client.py:378)
EmptyCallCap == 3
\* the duplicate streak that ends the loop (agentic_client.py:383)
DuplicateCap == 3
\* how many trailing steps the pacing check looks at (agentic_client.py:366)
RecentWindow == 3

(***************************************************************************)
(* Tool names and argument maps the external service may send              *)
(***************************************************************************)
\* the registered names the model uses (tool_registry.py:64-107)
RegisteredTools == {"get_database_schema", "execute_sql_query"}
UnknownTool == "no_such_tool"
EmptyName == ""

\* the argument keys, ranked in the order of Python's str comparison
KeyRank(k) == CASE k = "limit" -> 1 [] k = "sql" -> 2 [] k = "tool_name" -> 3

\* An argument map is the ordered list of (key, value) pairs the service sent.

\* json.dumps(parameters, sort_keys=True): the pairs in key order
RECURSIVE InsertByKey(_, _)
InsertByKey(p, s) ==
  IF s = <<>> THEN <<p>>
  ELSE IF KeyRank(p[1]) <= KeyRank(Head(s)[1]) THEN <<p>> \o s
       ELSE <<Head(s)>> \o InsertByKey(p, Tail(s))

RECURSIVE SortKeys(_)
SortKeys(args) ==
  IF args = <<>> THEN <<>> ELSE InsertByKey(Head(args), SortKeys(Tail(args)))

\* a mutant of ToolSignature: the parameters serialized in the order received
ToolSignatureUnsorted(tool_name, parameters) == <<tool_name, parameters>>

\* tool_signature = f"{tool_name}:{param_str}"
ToolSignature(tool_name, parameters) == <<tool_name, SortKeys(parameters)>>

\* the keys of an argument map
KeysOf(parameters) == { parameters[i][1] : i \in 1..Len(parameters) }

\* execute_tool(self, tool_name, **parameters): a key that names a positional
\* parameter of execute_tool makes the call itself raise TypeError
BindingRaises(parameters) == "tool_name" \in KeysOf(parameters)

(***************************************************************************)
(* ToolRegistry.execute_tool and BaseTool.safe_execute                     *)
(***************************************************************************)
\* the required parameters each registered tool declares
RequiredParams(tool_name) ==
  IF tool_name = "execute_sql_query" THEN {"sql"} ELSE {}

\* what the tool's own logic does once it is invoked
ToolBehaviours == {"returns_success", "returns_failure", "raises"}

ToolResult(ok, err) == [raised |-> FALSE, success |-> ok, error |-> err]
Raised(err) == [raised |-> TRUE, success |-> FALSE, error |-> err]

\* Python's None as an argument value
NoneValue == "None"

\* kwargs.get(k): the value supplied for k, None when the key is absent
KwargsGet(parameters, k) ==
  IF k \in KeysOf(parameters)
  THEN LET i == CHOOSE j \in 1..Len(parameters) : parameters[j][1] = k
       IN  parameters[i][2]
  ELSE NoneValue

\* validate_parameters: a required parameter whose value is None, supplied so
\* or absent, raises ValueError
ValidationRaises(tool_name, parameters) ==
  \E k \in RequiredParams(tool_name) : KwargsGet(parameters, k) = NoneValue

\* safe_execute: validation, then the tool; any Exception becomes a failed
\* ToolResult carrying its message
SafeExecute(tool_name, parameters, behaviour) ==
  IF ValidationRaises(tool_name, parameters)
  THEN ToolResult(FALSE, "Required parameter is missing")
  ELSE CASE behaviour = "returns_success" -> ToolResult(TRUE, "none")
         [] behaviour = "returns_failure" -> ToolResult(FALSE, "tool error")
         [] behaviour = "raises" -> ToolResult(FALSE, "exception message")

\* execute_tool(self, tool_name, **parameters) as its caller sees it
ExecuteTool(tool_name, parameters, behaviour) ==
  IF BindingRaises(parameters)
  THEN Raised("got multiple values for argument 'tool_name'")
  ELSE IF tool_name \notin RegisteredTools
       THEN ToolResult(FALSE, "not found, available tools listed")
       ELSE SafeExecute(tool_name, parameters, behaviour)

(***************************************************************************)
(* SQL text: a str is a sequence of one-character strings                  *)
(***************************************************************************)
LowerCase == <<"a", "b", "c", "d", "e", "f", "g", "h", "i", "j", "k", "l", "m",
              "n", "o", "p", "q", "r", "s", "t", "u", "v", "w", "x", "y", "z">>
UpperCase == <<"A", "B", "C", "D", "E", "F", "G", "H", "I", "J", "K", "L", "M",
              "N", "O", "P", "Q", "R", "S", "T", "U", "V", "W", "X", "Y", "Z">>
Digits == {"0", "1", "2", "3", "4", "5", "6", "7", "8", "9"}
Alphabetic == { LowerCase[i] : i \in 1..Len(LowerCase) }
                \cup { UpperCase[i] : i \in 1..Len(UpperCase) }

\* str.upper() on one character
UpperChar(c) ==
  IF \E i \in 1..Len(LowerCase) : LowerCase[i] = c
  THEN UpperCase[CHOOSE i \in 1..Len(LowerCase) : LowerCase[i] = c]
  ELSE c

\* str.upper()
ToUpper(s) == [i \in 1..Len(s) |-> UpperChar(s[i])]

\* str.lower() on one character
LowerChar(c) ==
  IF \E i \in 1..Len(UpperCase) : UpperCase[i] = c
  THEN LowerCase[CHOOSE i \in 1..Len(UpperCase) : UpperCase[i] = c]
  ELSE c

\* str.lower()
ToLower(s) == [i \in 1..Len(s) |-> LowerChar(s[i])]

\* the characters str.strip() and str.rstrip() remove by default
IsSpace(c) == c \in {" ", "\n", "\t"}

\* the characters on the word side of the regex anchor \b
IsWordChar(c) == c \in Alphabetic \cup Digits \cup {"_"}

\* pat occurs in s at position i
HasAt(s, i, pat) ==
  /\ i >= 1
  /\ i + Len(pat) - 1 <= Len(s)
  /\ \A k \in 1..Len(pat) : s[i + k - 1] = pat[k]

\* pat in s
Contains(s, pat) == \E i \in 1..(Len(s) + 1) : HasAt(s, i, pat)

\* s.startswith(pat)
StartsWith(s, pat) == HasAt(s, 1, pat)

\* the least of a non-empty set of positions: where a leftmost match is
Least(positions) == CHOOSE a \in positions : \A b \in positions : a <= b

\* the first position at or after i that ends the line: a newline, or
\* Len(s) + 1
EndOfLine(s, i) ==
  CHOOSE j \in i..(Len(s) + 1) :
    /\ j = Len(s) + 1 \/ s[j] = "\n"
    /\ \A k \in i..(j - 1) : s[k] # "\n"

\* re.sub(r'--.*$', '', sql, flags=re.MULTILINE), scanning from position i
RECURSIVE RemoveLineComments(_, _)
RemoveLineComments(s, i) ==
  LET starts == { j \in i..Len(s) : HasAt(s, j, <<"-", "-">>) }
  IN  IF starts = {} THEN SubSeq(s, i, Len(s))
      ELSE LET j == Least(starts)
           IN  SubSeq(s, i, j - 1) \o RemoveLineComments(s, EndOfLine(s, j))

\* the positions at which a block comment opened at i can close
BlockClosers(s, i) == { j \in (i + 2)..Len(s) : HasAt(s, j, <<"*", "/">>) }

\* re.sub(r'/\*.*?\*/', '', sql, flags=re.DOTALL), scanning from position i
RECURSIVE RemoveBlockComments(_, _)
RemoveBlockComments(s, i) ==
  LET starts == { j \in i..Len(s) :
                    HasAt(s, j, <<"/", "*">>) /\ BlockClosers(s, j) # {} }
  IN  IF starts = {} THEN SubSeq(s, i, Len(s))
      ELSE LET j == Least(starts)
           IN  SubSeq(s, i, j - 1)
                 \o RemoveBlockComments(s, Least(BlockClosers(s, j)) + 2)

\* str.strip()
Strip(s) ==
  LET kept == { i \in 1..Len(s) : ~IsSpace(s[i]) }
  IN  IF kept = {} THEN <<>>
      ELSE SubSeq(s, CHOOSE a \in kept : \A b \in kept : a <= b,
                     CHOOSE a \in kept : \A b \in kept : a >= b)

\* s.rstrip(';')
RECURSIVE RStripSemicolons(_)
RStripSemicolons(s) ==
  IF s # <<>> /\ s[Len(s)] = ";"
  THEN RStripSemicolons(SubSeq(s, 1, Len(s) - 1))
  ELSE s

(***************************************************************************)
(* DatabaseManager.is_safe_sql                                             *)
(***************************************************************************)
SelectKw == <<"S", "E", "L", "E", "C", "T">>
WithKw == <<"W", "I", "T", "H">>

dangerous_keywords == {
  <<"D", "R", "O", "P">>,
  <<"D", "E", "L", "E", "T", "E">>,
  <<"I", "N", "S", "E", "R", "T">>,
  <<"U", "P", "D", "A", "T", "E">>,
  <<"A", "L", "T", "E", "R">>,
  <<"C", "R", "E", "A", "T", "E">>,
  <<"T", "R", "U", "N", "C", "A", "T", "E">>,
  <<"R", "E", "P", "L", "A", "C", "E">>,
  <<"M", "E", "R", "G", "E">>,
  <<"E", "X", "E", "C">>,
  <<"E", "X", "E", "C", "U", "T", "E">>,
  <<"C", "A", "L", "L">>,
  <<"D", "E", "C", "L", "A", "R", "E">>,
  <<"S", "E", "T">>,
  <<"G", "R", "A", "N", "T">>,
  <<"R", "E", "V", "O", "K", "E">> }

\* cleaned_sql: line comments removed, then block comments, then
\* strip().upper()
CleanedSql(sql) ==
  ToUpper(Strip(RemoveBlockComments(RemoveLineComments(sql, 1), 1)))

\* a mutant of SearchWord: the keyword is searched as a substring
SearchSubstring(keyword, text) == Contains(text, keyword)

\* re.search(r'\b' + keyword + r'\b', text)
SearchWord(keyword, text) ==
  \E i \in 1..Len(text) :
    /\ HasAt(text, i, keyword)
    /\ i = 1 \/ ~IsWordChar(text[i - 1])
    /\ i + Len(keyword) - 1 = Len(text) \/ ~IsWordChar(text[i + Len(keyword)])

is_safe_sql(sql) ==
  LET cleaned_sql == CleanedSql(sql)
  IN  IF ~(StartsWith(cleaned_sql, SelectKw) \/ StartsWith(cleaned_sql, WithKw))
      THEN FALSE
      ELSE ~\E keyword \in dangerous_keywords : SearchWord(keyword, cleaned_sql)

(***************************************************************************)
(* DatabaseManager.add_safety_limits                                       *)
(***************************************************************************)
\* settings.max_query_results
max_results == 1000

DigitChars == <<"0", "1", "2", "3", "4", "5", "6", "7", "8", "9">>

\* str(n) for a natural number n, as interpolated by an f-string
RECURSIVE FormatInt(_)
FormatInt(n) ==
  IF n < 10 THEN <<DigitChars[n + 1]>>
  ELSE FormatInt(n \div 10) \o <<DigitChars[(n % 10) + 1]>>

LimitKw == <<"L", "I", "M", "I", "T">>
OrderByKw == <<"O", "R", "D", "E", "R", " ", "B", "Y">>

\* f' LIMIT {n}'
LimitClause(n) == <<" ">> \o LimitKw \o <<" ">> \o FormatInt(n)

\* where the group (ORDER BY.*?) opened at i ends: the first position e
\* after the keyword with only non-newline characters before it and the
\* lookahead (?=;|$) true at it; 0 when there is none
OrderByEnd(s, i) ==
  LET from == i + Len(OrderByKw)
      ends == { e \in from..(Len(s) + 1) :
                  /\ \A k \in from..(e - 1) : s[k] # "\n"
                  /\ \/ e = Len(s) + 1
                     \/ s[e] = ";"
                     \/ e = Len(s) /\ s[e] = "\n" }
  IN  IF ends = {} THEN 0 ELSE Least(ends)

\* re.sub(r'(ORDER BY.*?)(?=;|$)', rf'\1 LIMIT {n}', sql, flags=re.IGNORECASE),
\* scanning from position i
RECURSIVE LimitAfterOrderBy(_, _, _)
LimitAfterOrderBy(s, i, n) ==
  LET upper == ToUpper(s)
      starts == { j \in i..Len(s) :
                    HasAt(upper, j, OrderByKw) /\ OrderByEnd(s, j) # 0 }
  IN  IF starts = {} THEN SubSeq(s, i, Len(s))
      ELSE LET e == OrderByEnd(s, Least(starts))
           IN  SubSeq(s, i, e - 1) \o LimitClause(n)
                 \o LimitAfterOrderBy(s, e, n)

\* sql.rstrip(';') + f' LIMIT {n};'
LimitAtEnd(sql, n) == RStripSemicolons(sql) \o LimitClause(n) \o <<";">>

\* a mutant of HasLimit: no text is taken to hold a limit
HasLimitNever(sql) == FALSE

\* 'LIMIT' in sql.upper()
HasLimit(sql) == Contains(ToUpper(sql), LimitKw)

add_safety_limits(sql) ==
  IF ~HasLimit(sql)
  THEN IF Contains(ToUpper(sql), OrderByKw)
       THEN LimitAfterOrderBy(sql, 1, max_results)
       ELSE LimitAtEnd(sql, max_results)
  ELSE sql

(***************************************************************************)
(* ExecuteSQLQueryTool.execute: the caller's smaller limit                 *)
(***************************************************************************)
\* where the digits of r'LIMIT \d+' matched at i end (the last digit)
DigitsEnd(s, i) ==
  LET from == i + Len(LimitKw) + 1
  IN  CHOOSE e \in from..Len(s) :
        /\ \A k \in from..e : s[k] \in Digits
        /\ e = Len(s) \/ s[e + 1] \notin Digits

\* r'LIMIT \d+' (IGNORECASE) matches at position i
LimitDigitsAt(s, i) ==
  /\ HasAt(ToUpper(s), i, LimitKw \o <<" ">>)
  /\ i + Len(LimitKw) + 1 <= Len(s)
  /\ s[i + Len(LimitKw) + 1] \in Digits

\* re.sub(r'LIMIT \d+', f'LIMIT {n}', safe_sql, flags=re.IGNORECASE)
RECURSIVE ReplaceLimit(_, _, _)
ReplaceLimit(s, i, n) ==
  LET starts == { j \in i..Len(s) : LimitDigitsAt(s, j) }
  IN  IF starts = {} THEN SubSeq(s, i, Len(s))
      ELSE LET j == Least(starts)
           IN  SubSeq(s, i, j - 1) \o LimitKw \o <<" ">> \o FormatInt(n)
                 \o ReplaceLimit(s, DigitsEnd(s, j) + 1, n)

\* the limit parameter's declared default, and the bound of "if limit < 1000"
DefaultLimit == 1000

\* safe_sql as ExecuteSQLQueryTool.execute builds it
SafeSqlFor(sql, limit) ==
  LET safe_sql == add_safety_limits(sql)
  IN  IF limit < DefaultLimit
      THEN LET replaced == ReplaceLimit(safe_sql, 1, limit)
           IN  IF ~Contains(ToUpper(replaced), LimitKw)
               THEN LimitAtEnd(replaced, limit)
               ELSE replaced
      ELSE safe_sql

(***************************************************************************)
(* Parts of a model response                                               *)
(***************************************************************************)
\* fc: the part has a function_call; text: what the text part classifies as
NoText == "none"
CallPart(n, a) == [fc |-> TRUE, name |-> n, args |-> a, text |-> NoText]
TextPart(t) == [fc |-> FALSE, name |-> EmptyName, args |-> <<>>, text |-> t]

Parts ==
  { CallPart(EmptyName, <<>>), CallPart(UnknownTool, <<>>),
    CallPart("get_database_schema", <<>>),
    CallPart("execute_sql_query", << <<"sql", "q1">>, <<"limit", "5">> >>),
    CallPart("execute_sql_query", << <<"limit", "5">>, <<"sql", "q1">> >>),
    CallPart("get_database_schema", << <<"tool_name", "x">> >>),
    TextPart("analysis"), TextPart("conclusion"), TextPart(NoText) }

(***************************************************************************)
(* State                                                                   *)
(***************************************************************************)
VARIABLES
  pc,                        \* where the orchestrator is
  session,                   \* sessions started on this instance
  iteration, empty_call_count, duplicate_call_count, retry_count,
  current_investigation,     \* the recorded step list
  executed_tool_signatures,
  tools_executed_count,
  parts_left,                \* parts of the current response not yet processed
  had_function_call,         \* a part processed so far has function_call
  pending,                   \* the tool call being executed
  yielded,                   \* the steps emitted to the stream consumer
  model_calls,               \* tool-enabled model calls issued in this session
  retried_calls,             \* those that ended in a retried rate-limit error
  synthesis_calls,           \* tool-free synthesis calls issued in this session
  registry_calls,            \* the calls made to ToolRegistry.execute_tool
  slept,                     \* the sleeps made before a retried model call
  sql_text,                  \* the SQL text handed to the gate or to a tool
  gate_result,               \* what is_safe_sql returned for sql_text
  tool_run,                  \* the tool whose execute has run
  tool_result,               \* the success flag of the ToolResult it returned
  db_sent,                   \* the statements sent over a connection
  conn_acquired,             \* connections get_connection has returned
  conn_open,                 \* those not closed yet
  max_exchanges,             \* ConversationMemory.max_exchanges
  exchanges,                 \* ConversationMemory.exchanges, oldest first
  added,                     \* the exchanges added since construction or clear
  schema_cache,              \* ConversationMemory.schema_cache
  schema_cache_time,         \* ConversationMemory.schema_cache_time
  now,                       \* datetime.now(), in whole seconds
  ticks,                     \* how often the clock has advanced
  last_read,                 \* what the latest read operation returned
  limit_results,             \* what add_safety_limits returned, call by call
  dispatched,                \* the execute_tool calls made on the registry
  execution_history,         \* ToolRegistry.execution_history
  user_query,                \* the query autonomous_investigation is called with
  first_prompt,              \* combined_prompt as composed before the loop
  cancel_signal,             \* the caller has signalled cancellation
  issued,                    \* the loop state at each model call issued
  other_session              \* a second call running on the same instance

orchVars == <<pc, session, iteration, empty_call_count, duplicate_call_count,
              retry_count, current_investigation, executed_tool_signatures,
              tools_executed_count, parts_left, had_function_call, pending,
              yielded, model_calls, retried_calls, synthesis_calls,
              registry_calls, slept>>

sqlVars == <<sql_text, gate_result, tool_run, tool_result, db_sent,
             conn_acquired, conn_open>>

memVars == <<max_exchanges, exchanges, added, schema_cache,
             schema_cache_time, now, ticks, last_read>>

regVars == <<dispatched, execution_history>>

promptVars == <<user_query, first_prompt>>

sigVars == <<cancel_signal>>

histVars == <<issued>>

peerVars == <<other_session>>

extVars == <<limit_results, regVars, promptVars, sigVars, histVars,
             peerVars>>

vars == <<orchVars, sqlVars, memVars, extVars>>

NoPending == [name |-> EmptyName, args |-> <<>>]

Step(type, name, args, result) ==
  [step_type |-> type, tool_name |-> name, parameters |-> args,
   result |-> result, retry_attempt |-> 0, delay |-> 0, quota_info |-> <<>>]

\* the retry step: its result holds the attempt, the delay (in tenths of a
\* second) and the error text
RetryStep(attempt, retry_delay, error_msg) ==
  [Step("retry", EmptyName, <<>>, "rate_limit")
     EXCEPT !.retry_attempt = attempt, !.delay = retry_delay,
            !.quota_info = error_msg]

HasStep(steps, type) == \E i \in 1..Len(steps) : steps[i].step_type = type

\* recent_steps = current_investigation[-3:]
RecentSteps(steps) ==
  IF Len(steps) >= RecentWindow
  THEN SubSeq(steps, Len(steps) - RecentWindow + 1, Len(steps))
  ELSE steps

(***************************************************************************)
(* AgenticGeminiClient.__init__ and the start of a session                 *)
(***************************************************************************)
OrchInit ==
  /\ pc = "idle"
  /\ session = 0
  /\ iteration = 0
  /\ empty_call_count = 0
  /\ duplicate_call_count = 0
  /\ retry_count = 0
  /\ current_investigation = <<>>
  /\ executed_tool_signatures = {}
  /\ tools_executed_count = 0
  /\ parts_left = 0
  /\ had_function_call = FALSE
  /\ pending = NoPending
  /\ yielded = <<>>
  /\ model_calls = 0
  /\ retried_calls = 0
  /\ synthesis_calls = 0
  /\ registry_calls = <<>>
  /\ slept = <<>>

\* no SQL text has been handed to the database layer
SqlIdle ==
  /\ gate_result = "unchecked"
  /\ tool_run = "none"
  /\ tool_result = "none"
  /\ db_sent = <<>>
  /\ conn_acquired = 0
  /\ conn_open = 0

\* the schema cache holds None, a snapshot without tables, or a snapshot
NoSchema == "None"

EmptySchema == "empty"

Schemas == {EmptySchema, "schema_a", "schema_b"}

\* schema_cache_time is None
NoTime == -1

\* what a read operation returns: an exchange is named by its serial number
\* (0 for None), a list of exchanges by their serial numbers, the schema by
\* its name
ReadResult(op, serial, listed, schema) ==
  [op |-> op, exchange |-> serial, listed |-> listed, schema |-> schema]

NoRead == ReadResult("none", 0, <<>>, NoSchema)

\* get_conversation_memory(): ConversationMemory(max_exchanges=5)
DefaultMaxExchanges == 5

\* ConversationMemory.__init__, apart from the capacity
MemFresh ==
  /\ exchanges = <<>>
  /\ added = <<>>
  /\ schema_cache = NoSchema
  /\ schema_cache_time = NoTime
  /\ now = 0
  /\ ticks = 0
  /\ last_read = NoRead

\* the global memory the orchestrator holds
MemIdle == max_exchanges = DefaultMaxExchanges /\ MemFresh

(***************************************************************************)
(* The first planning prompt                                               *)
(***************************************************************************)
anomaly_keywords ==
  {<<"a", "n", "o", "m", "a", "l">>,
   <<"u", "n", "u", "s", "u", "a", "l">>,
   <<"s", "t", "r", "a", "n", "g", "e">>,
   <<"w", "e", "i", "r", "d">>,
   <<"o", "d", "d">>,
   <<"o", "u", "t", "l", "i", "e", "r">>,
   <<"a", "b", "n", "o", "r", "m", "a", "l">>,
   <<"i", "r", "r", "e", "g", "u", "l", "a", "r">>,
   <<"s", "u", "s", "p", "i", "c", "i", "o", "u", "s">>,
   <<"u", "n", "e", "x", "p", "e", "c", "t", "e", "d">>,
   <<"d", "e", "v", "i", "a", "t", "i", "o", "n">>,
   <<"e", "x", "c", "e", "p", "t", "i", "o", "n">>,
   <<"p", "a", "t", "t", "e", "r", "n">>,
   <<"t", "r", "e", "n", "d">>,
   <<"i", "n", "c", "o", "n", "s", "i", "s", "t", "e", "n", "t">>,
   <<"e", "r", "r", "o", "r">>,
   <<"m", "i", "s", "t", "a", "k", "e">>,
   <<"w", "r", "o", "n", "g">>,
   <<"f", "r", "a", "u", "d">>,
   <<"d", "e", "t", "e", "c", "t">>,
   <<"f", "i", "n", "d">>,
   <<"i", "d", "e", "n", "t", "i", "f", "y">>,
   <<"s", "p", "o", "t">>,
   <<"d", "i", "s", "c", "o", "v", "e", "r">>}

\* a mutant of is_anomaly_query: the query is not lowercased
IsAnomalyCaseSensitive(query) ==
  \E keyword \in anomaly_keywords : Contains(query, keyword)

\* any(keyword in query.lower() for keyword in anomaly_keywords)
is_anomaly_query(query) ==
  \E keyword \in anomaly_keywords : Contains(ToLower(query), keyword)

\* the fixed texts of the prompt, each one piece; the query is spelled out
SystemPrompt == "system_prompt"
UserRequest == "User Request: Conduct a comprehensive autonomous investigation"
AnomalyInstructions == "ANOMALY DETECTION QUERY DETECTED! PRIORITY TOOLS"
Methodology == "INVESTIGATION METHODOLOGY"

\* anomaly_instructions: empty unless the query is classified as an anomaly
\* query
anomaly_instructions(query) ==
  IF is_anomaly_query(query) THEN <<AnomalyInstructions>> ELSE <<>>

\* combined_prompt = f"{system_prompt}\n\nUser Request: {user_prompt}"
CombinedPrompt(query) ==
  <<SystemPrompt, UserRequest, "\"">> \o query \o <<"\"", "\n">>
    \o anomaly_instructions(query) \o <<"\n", Methodology>>

\* no prompt has been composed
NoPrompt == <<>>

\* the query of the specification's first end-to-end scenario
FindUnusualRevenuePatterns ==
  <<"f", "i", "n", "d", " ", "u", "n", "u", "s", "u", "a", "l", " ", "r", "e", "v", "e", "n", "u", "e", " ", "p", "a", "t", "t", "e", "r", "n", "s">>

\* nothing has been asked of the helpers yet
ExtIdle ==
  /\ limit_results = <<>> /\ dispatched = <<>> /\ execution_history = <<>>
  /\ user_query = FindUnusualRevenuePatterns /\ first_prompt = NoPrompt
  /\ cancel_signal = FALSE
  /\ issued = <<>>
  /\ other_session = "none"

Init == OrchInit /\ sql_text = <<>> /\ SqlIdle /\ MemIdle /\ ExtIdle

\* the head of autonomous_investigation: the per-session state is reset
\* (tools_executed_count is not), and the first prompt is composed
ResetSession ==
  /\ session' = session + 1
  /\ current_investigation' = <<>>
  /\ executed_tool_signatures' = {}
  /\ iteration' = 0
  /\ empty_call_count' = 0
  /\ duplicate_call_count' = 0
  /\ retry_count' = 0
  /\ parts_left' = 0
  /\ had_function_call' = FALSE
  /\ pending' = NoPending
  /\ yielded' = <<>>
  /\ model_calls' = 0
  /\ retried_calls' = 0
  /\ synthesis_calls' = 0
  /\ registry_calls' = <<>>
  /\ slept' = <<>>
  /\ pc' = "loop"
  /\ first_prompt' = CombinedPrompt(user_query)
  /\ UNCHANGED tools_executed_count
  /\ UNCHANGED <<sqlVars, memVars, limit_results, regVars, user_query,
                 sigVars, histVars, peerVars>>

\* autonomous_investigation is called on the new instance
StartSession == pc = "idle" /\ ResetSession

\* how many sessions one instance runs
MaxSessions == 2

\* autonomous_investigation is called again on the instance when the session
\* before it has ended: main.py keeps one global AgenticGeminiClient
NextSession == pc = "done" /\ session < MaxSessions /\ ResetSession

(***************************************************************************)
(* The top of the while loop, up to the tool-enabled model call            *)
(***************************************************************************)
\* a mutant of LoopGuard: the loop has no iteration cap
LoopGuardNoCap(it) == TRUE

\* while iteration < max_iterations
LoopGuard(it) == it < max_iterations

LoopExit ==
  /\ pc = "loop"
  /\ ~LoopGuard(iteration)
  /\ pc' = "post_loop"
  /\ UNCHANGED <<session, iteration, empty_call_count, duplicate_call_count,
                 retry_count, current_investigation, executed_tool_signatures,
                 tools_executed_count, parts_left, had_function_call, pending,
                 yielded, model_calls, retried_calls, synthesis_calls,
                 registry_calls>>
  /\ UNCHANGED <<slept, sqlVars, memVars, extVars>>

LoopHead ==
  /\ pc = "loop"
  /\ LoopGuard(iteration)
  /\ LET it == iteration + 1
         recentTool == HasStep(RecentSteps(current_investigation), "tool_call")
         empties == IF it > 1
                    THEN (IF recentTool THEN 0 ELSE empty_call_count + 1)
                    ELSE empty_call_count
         stop == \/ (it > 1 /\ ~recentTool /\ empties >= EmptyCallCap)
                 \/ duplicate_call_count >= DuplicateCap
     IN /\ iteration' = it
        /\ empty_call_count' = empties
        /\ IF stop
           THEN /\ pc' = "post_loop"
                /\ UNCHANGED model_calls
           ELSE /\ pc' = "await_model"
                /\ model_calls' = model_calls + 1
  /\ UNCHANGED <<session, duplicate_call_count, retry_count,
                 current_investigation, executed_tool_signatures,
                 tools_executed_count, parts_left, had_function_call, pending,
                 yielded, retried_calls, synthesis_calls, registry_calls>>

LoopTop == LoopHead /\ UNCHANGED <<slept, sqlVars, memVars, extVars>>

(***************************************************************************)
(* Outcomes of the tool-enabled model call (_generate_with_tools)          *)
(***************************************************************************)
TextSteps(steps) ==
  Cardinality({ i \in 1..Len(steps) :
                  steps[i].step_type \in {"analysis", "conclusion"} })

\* the call returns a response whose first candidate holds n parts
ModelReturns(n) ==
  /\ pc = "await_model"
  /\ parts_left' = n
  /\ had_function_call' = FALSE
  /\ pc' = "parts"
  /\ UNCHANGED <<session, iteration, empty_call_count, duplicate_call_count,
                 retry_count, current_investigation, executed_tool_signatures,
                 tools_executed_count, pending, yielded, model_calls,
                 retried_calls, synthesis_calls, registry_calls>>
  /\ UNCHANGED <<slept, sqlVars, memVars, extVars>>

ModelReturnsParts == \E n \in 0..MaxParts : ModelReturns(n)

\* the call returns a response without candidates: nothing is processed and
\* the loop goes round after the short sleep
ModelReturnsNoCandidates ==
  /\ pc = "await_model"
  /\ pc' = "loop"
  /\ UNCHANGED <<session, iteration, empty_call_count, duplicate_call_count,
                 retry_count, current_investigation, executed_tool_signatures,
                 tools_executed_count, parts_left, had_function_call, pending,
                 yielded, model_calls, retried_calls, synthesis_calls,
                 registry_calls>>
  /\ UNCHANGED <<slept, sqlVars, memVars, extVars>>

\* the call fails with an error that is not a rate limit: _generate_with_tools
\* returns None and the loop breaks
ModelFails ==
  /\ pc = "await_model"
  /\ pc' = "post_loop"
  /\ UNCHANGED <<session, iteration, empty_call_count, duplicate_call_count,
                 retry_count, current_investigation, executed_tool_signatures,
                 tools_executed_count, parts_left, had_function_call, pending,
                 yielded, model_calls, retried_calls, synthesis_calls,
                 registry_calls>>
  /\ UNCHANGED <<slept, sqlVars, memVars, extVars>>

\* a mutant of MayRetry: every rate-limit error is retried
MayRetryAlways(count) == TRUE

\* if retry_count < max_retries
MayRetry(count) == count < max_retries

\* a mutant of IterationAfterRetry: the retried round keeps its budget slot
IterationAfterRetryKept(it) == it

\* the iteration counter after a retried rate-limit error: iteration -= 1
IterationAfterRetry(it) == it - 1

\* "429" in error_msg or "Resource exhausted" in error_msg
\*   or "quota" in error_msg.lower()
IsRateLimit(error_msg) ==
  \/ Contains(error_msg, <<"4", "2", "9">>)
  \/ Contains(error_msg, <<"R", "e", "s", "o", "u", "r", "c", "e", " ", "e", "x", "h", "a", "u", "s", "t", "e", "d">>)
  \/ Contains(ToLower(error_msg), <<"q", "u", "o", "t", "a">>)

\* rate_limit_delay = 32.0, in seconds
rate_limit_delay == 32

\* delays are counted in tenths of a second
Tenths(seconds) == seconds * 10

RetryIn == <<"r", "e", "t", "r", "y", " ", "i", "n", " ">>

\* where the longest run of digits that starts at position from ends;
\* from - 1 when there is no digit at from
DigitRunEnd(s, from) ==
  CHOOSE e \in (from - 1)..Len(s) :
    /\ \A k \in from..e : s[k] \in Digits
    /\ e = Len(s) \/ s[e + 1] \notin Digits

\* the group (\d+\.?\d*) of a match at position i ends with a point and
\* fraction digits
HasPoint(s, i) ==
  LET e == DigitRunEnd(s, i + Len(RetryIn))
  IN  e < Len(s) /\ s[e + 1] = "."

\* the position of the closing s of a match at position i
ClosingS(s, i) ==
  LET e == DigitRunEnd(s, i + Len(RetryIn))
  IN  IF HasPoint(s, i) THEN DigitRunEnd(s, e + 2) + 1 ELSE e + 1

\* r'retry in (\d+\.?\d*)s' matches at position i
RetryMatchAt(s, i) ==
  /\ HasAt(s, i, RetryIn)
  /\ DigitRunEnd(s, i + Len(RetryIn)) >= i + Len(RetryIn)
  /\ ClosingS(s, i) <= Len(s)
  /\ s[ClosingS(s, i)] = "s"

DigitValue(c) == (CHOOSE k \in 1..Len(DigitChars) : DigitChars[k] = c) - 1

\* the number the digits s[a..e] write
RECURSIVE ParseInt(_, _, _)
ParseInt(s, a, e) ==
  IF e < a THEN 0 ELSE ParseInt(s, a, e - 1) * 10 + DigitValue(s[e])

\* float(delay_match.group(1)) for the match at position i, in tenths of a
\* second: the digits after the first fraction digit are below the resolution
SuggestedDelay(s, i) ==
  LET a == i + Len(RetryIn)
      e == DigitRunEnd(s, a)
      f == IF HasPoint(s, i) /\ DigitRunEnd(s, e + 2) >= e + 2
           THEN DigitValue(s[e + 2]) ELSE 0
  IN  Tenths(ParseInt(s, a, e)) + f

\* a mutant of MaxDelay: the smaller of the two delays
MinDelay(a, b) == IF a <= b THEN a ELSE b

\* max(suggested_delay, rate_limit_delay)
MaxDelay(a, b) == IF a >= b THEN a ELSE b

\* retry_delay as lines 542-549 compute it
RetryDelay(error_msg) ==
  LET starts == { i \in 1..Len(error_msg) : RetryMatchAt(error_msg, i) }
  IN  IF starts = {}
      THEN Tenths(rate_limit_delay)
      ELSE MaxDelay(SuggestedDelay(error_msg, Least(starts)),
                    Tenths(rate_limit_delay))

\* the call raises an error with the text error_msg that is taken for a rate
\* limit: _generate_with_tools re-raises it
ModelRateLimitedWith(error_msg) ==
  /\ pc = "await_model"
  /\ IsRateLimit(error_msg)
  /\ IF MayRetry(retry_count)
     THEN /\ retry_count' = retry_count + 1
          /\ yielded' = Append(yielded,
                          RetryStep(retry_count + 1, RetryDelay(error_msg),
                                    error_msg))
          /\ slept' = Append(slept, RetryDelay(error_msg))
          /\ iteration' = IterationAfterRetry(iteration)
          /\ retried_calls' = retried_calls + 1
          /\ pc' = "loop"
     ELSE /\ yielded' = Append(yielded,
                          Step("error", EmptyName, <<>>, "quota_exhausted"))
          /\ pc' = "post_loop"
          /\ UNCHANGED <<retry_count, iteration, retried_calls, slept>>
  /\ UNCHANGED <<session, empty_call_count, duplicate_call_count,
                 current_investigation, executed_tool_signatures,
                 tools_executed_count, parts_left, had_function_call, pending,
                 model_calls, synthesis_calls, registry_calls>>
  /\ UNCHANGED <<sqlVars, memVars, extVars>>

\* the text of a rate-limit error that suggests no delay
ResourceExhausted ==
  <<"4", "2", "9", " ", "R", "e", "s", "o", "u", "r", "c", "e", " ", "e", "x", "h", "a", "u", "s", "t", "e", "d">>

ModelRateLimited == ModelRateLimitedWith(ResourceExhausted)

(***************************************************************************)
(* The parts of a response, one at a time                                  *)
(***************************************************************************)
\* a mutant of IsDuplicate: no call is ever taken for a duplicate
IsDuplicateNever(sig, executed) == FALSE

\* if tool_signature in self.executed_tool_signatures
IsDuplicate(sig, executed) == sig \in executed

\* the next part p of the response is taken up
TakePart(p) ==
  /\ pc = "parts" /\ parts_left > 0
  /\ parts_left' = parts_left - 1
  /\ had_function_call' = (had_function_call \/ p.fc)

\* a mutant of SkipCallOf: the skipped call counts as a duplicate
SkipCallCounted(p) ==
  /\ TakePart(p)
  /\ p.fc
  /\ p.name \notin RegisteredTools
  /\ duplicate_call_count' = duplicate_call_count + 1
  /\ UNCHANGED <<pc, session, iteration, empty_call_count,
                 retry_count, current_investigation,
                 executed_tool_signatures, tools_executed_count,
                 pending, yielded, model_calls,
                 retried_calls, synthesis_calls, registry_calls>>
  /\ UNCHANGED <<slept, sqlVars, memVars, extVars>>

\* an empty or unnamed call, or a call to a tool that is not registered: skipped
SkipCallOf(p) ==
  /\ TakePart(p)
  /\ p.fc
  /\ p.name \notin RegisteredTools
  /\ UNCHANGED <<pc, session, iteration, empty_call_count,
                 duplicate_call_count, retry_count, current_investigation,
                 executed_tool_signatures, tools_executed_count,
                 pending, yielded, model_calls,
                 retried_calls, synthesis_calls, registry_calls>>
  /\ UNCHANGED <<slept, sqlVars, memVars, extVars>>

SkipCall == \E p \in Parts : SkipCallOf(p)

\* a call whose signature was already executed in this session: skipped
DuplicateCallOf(p) ==
  /\ TakePart(p)
  /\ p.fc
  /\ p.name \in RegisteredTools
  /\ IsDuplicate(ToolSignature(p.name, p.args), executed_tool_signatures)
  /\ duplicate_call_count' = duplicate_call_count + 1
  /\ UNCHANGED <<pc, session, iteration, empty_call_count, retry_count,
                 current_investigation, executed_tool_signatures,
                 tools_executed_count, pending, yielded,
                 model_calls, retried_calls, synthesis_calls, registry_calls>>
  /\ UNCHANGED <<slept, sqlVars, memVars, extVars>>

DuplicateCall == \E p \in Parts : DuplicateCallOf(p)

\* a new call: its signature is recorded, the step is yielded and the call is
\* handed to ToolRegistry.execute_tool
NewCallOf(p) ==
  /\ TakePart(p)
  /\ p.fc
  /\ p.name \in RegisteredTools
  /\ LET sig == ToolSignature(p.name, p.args)
     IN /\ ~IsDuplicate(sig, executed_tool_signatures)
        /\ executed_tool_signatures' = executed_tool_signatures \cup {sig}
  /\ registry_calls' =
       Append(registry_calls, [tool_name |-> p.name, parameters |-> p.args,
                               outcome |-> "pending"])
  /\ yielded' = Append(yielded, Step("tool_call", p.name, p.args, "none"))
  /\ pending' = [name |-> p.name, args |-> p.args]
  /\ duplicate_call_count' = 0
  /\ pc' = "await_tool"
  /\ UNCHANGED <<session, iteration, empty_call_count, retry_count,
                 current_investigation, tools_executed_count,
                 model_calls, retried_calls, synthesis_calls>>
  /\ UNCHANGED <<slept, sqlVars, memVars, extVars>>

NewCall == \E p \in Parts : NewCallOf(p)

\* the outcome of the latest registry call is filled in
Settle(calls, outcome) ==
  [calls EXCEPT ![Len(calls)].outcome = outcome]

\* ToolRegistry.execute_tool returns a ToolResult: the step gets its result
\* and is recorded; a successful result counts as an executed tool
ToolReturns ==
  /\ pc = "await_tool"
  /\ \E b \in ToolBehaviours :
       LET r == ExecuteTool(pending.name, pending.args, b)
       IN /\ ~r.raised
          /\ current_investigation' =
               Append(current_investigation,
                      Step("tool_call", pending.name, pending.args,
                           IF r.success THEN "success" ELSE "failed"))
          /\ tools_executed_count' =
               tools_executed_count + (IF r.success THEN 1 ELSE 0)
          /\ registry_calls' =
               Settle(registry_calls, IF r.success THEN "success" ELSE "failed")
  /\ pending' = NoPending
  /\ pc' = "parts"
  /\ UNCHANGED <<session, iteration, empty_call_count, duplicate_call_count,
                 retry_count, executed_tool_signatures, parts_left,
                 had_function_call, yielded, model_calls, retried_calls,
                 synthesis_calls>>
  /\ UNCHANGED <<slept, sqlVars, memVars, extVars>>

\* the call to execute_tool raises: the loop's handler emits an error step
\* and breaks; the tool_call step was yielded but is never recorded
ToolCallRaises ==
  /\ pc = "await_tool"
  /\ \E b \in ToolBehaviours : ExecuteTool(pending.name, pending.args, b).raised
  /\ registry_calls' = Settle(registry_calls, "raised")
  /\ yielded' = Append(yielded, Step("error", EmptyName, <<>>, "exception"))
  /\ pending' = NoPending
  /\ pc' = "post_loop"
  /\ UNCHANGED <<session, iteration, empty_call_count, duplicate_call_count,
                 retry_count, current_investigation, executed_tool_signatures,
                 tools_executed_count, parts_left, had_function_call,
                 model_calls, retried_calls, synthesis_calls>>
  /\ UNCHANGED <<slept, sqlVars, memVars, extVars>>

\* a mutant of AfterText: a conclusion does not end the session
AfterTextContinue(cls) == "parts"

\* where the loop goes after recording a text part of class cls
AfterText(cls) == IF cls = "conclusion" THEN "done" ELSE "parts"

\* a text part: classified by keyword, yielded and recorded; a conclusion
\* returns from autonomous_investigation at once
TextStep ==
  /\ \E p \in Parts :
       /\ TakePart(p)
       /\ ~p.fc
       /\ p.text # NoText
       /\ TextSteps(current_investigation) < MaxTextSteps
       /\ LET st == Step(p.text, EmptyName, <<>>, "text")
          IN /\ yielded' = Append(yielded, st)
             /\ current_investigation' = Append(current_investigation, st)
       /\ pc' = AfterText(p.text)
  /\ UNCHANGED <<session, iteration, empty_call_count, duplicate_call_count,
                 retry_count, executed_tool_signatures, tools_executed_count,
                 pending, model_calls, retried_calls,
                 synthesis_calls, registry_calls>>
  /\ UNCHANGED <<slept, sqlVars, memVars, extVars>>

\* a part with neither a function call nor text
IgnorePart ==
  /\ \E p \in Parts :
       /\ TakePart(p)
       /\ ~p.fc
       /\ p.text = NoText
  /\ UNCHANGED <<pc, session, iteration, empty_call_count,
                 duplicate_call_count, retry_count, current_investigation,
                 executed_tool_signatures, tools_executed_count,
                 pending, yielded, model_calls,
                 retried_calls, synthesis_calls, registry_calls>>
  /\ UNCHANGED <<slept, sqlVars, memVars, extVars>>

\* all parts processed: a response without any function call breaks the loop
EndParts ==
  /\ pc = "parts" /\ parts_left = 0
  /\ pc' = IF had_function_call THEN "loop" ELSE "post_loop"
  /\ UNCHANGED <<session, iteration, empty_call_count, duplicate_call_count,
                 retry_count, current_investigation, executed_tool_signatures,
                 tools_executed_count, parts_left, had_function_call, pending,
                 yielded, model_calls, retried_calls, synthesis_calls,
                 registry_calls>>
  /\ UNCHANGED <<slept, sqlVars, memVars, extVars>>

(***************************************************************************)
(* After the loop: the forced final analysis                               *)
(***************************************************************************)
\* a mutant of NeedsSynthesis: the final analysis is forced even when no step
\* was recorded
NeedsSynthesisEvenEmpty(steps) == ~HasStep(steps, "conclusion")

\* if self.current_investigation and not any(conclusion step)
NeedsSynthesis(steps) == steps # <<>> /\ ~HasStep(steps, "conclusion")

PostLoop ==
  /\ pc = "post_loop"
  /\ IF NeedsSynthesis(current_investigation)
     THEN /\ synthesis_calls' = synthesis_calls + 1
          /\ pc' = "await_synth"
     ELSE /\ pc' = "done"
          /\ UNCHANGED synthesis_calls
  /\ UNCHANGED <<session, iteration, empty_call_count, duplicate_call_count,
                 retry_count, current_investigation, executed_tool_signatures,
                 tools_executed_count, parts_left, had_function_call, pending,
                 yielded, model_calls, retried_calls, registry_calls>>
  /\ UNCHANGED <<slept, sqlVars, memVars, extVars>>

\* the narrative texts the synthesis call may return
SynthTexts == {"narrative", ""}

\* the synthesis call returns candidates: a conclusion step with their text
SynthReturnsText ==
  /\ pc = "await_synth"
  /\ \E t \in SynthTexts :
       LET st == Step("conclusion", EmptyName, <<>>, t)
       IN /\ yielded' = Append(yielded, st)
          /\ current_investigation' = Append(current_investigation, st)
  /\ pc' = "done"
  /\ UNCHANGED <<session, iteration, empty_call_count, duplicate_call_count,
                 retry_count, executed_tool_signatures, tools_executed_count,
                 parts_left, had_function_call, pending, model_calls, retried_calls,
                 synthesis_calls, registry_calls>>
  /\ UNCHANGED <<slept, sqlVars, memVars, extVars>>

\* the synthesis call returns no candidates: no step
SynthReturnsNoCandidates ==
  /\ pc = "await_synth"
  /\ pc' = "done"
  /\ UNCHANGED <<session, iteration, empty_call_count, duplicate_call_count,
                 retry_count, current_investigation, executed_tool_signatures,
                 tools_executed_count, parts_left, had_function_call, pending,
                 yielded, model_calls, retried_calls, synthesis_calls,
                 registry_calls>>
  /\ UNCHANGED <<slept, sqlVars, memVars, extVars>>

\* the error texts the synthesis call may raise: one naming 429 or
\* "Resource exhausted", one naming only a quota, one naming neither
SynthErrors == {"429", "quota", "other"}

\* if "429" in str(e) or "Resource exhausted" in str(e)
FallbackFor(err) == err = "429"

\* the synthesis call raises: the fallback narrative is built only for an
\* error text naming 429 or "Resource exhausted"
SynthRaises ==
  /\ pc = "await_synth"
  /\ \E err \in SynthErrors :
       IF FallbackFor(err)
       THEN LET st == Step("conclusion", EmptyName, <<>>, "fallback")
            IN /\ yielded' = Append(yielded, st)
               /\ current_investigation' = Append(current_investigation, st)
       ELSE UNCHANGED <<yielded, current_investigation>>
  /\ pc' = "done"
  /\ UNCHANGED <<session, iteration, empty_call_count, duplicate_call_count,
                 retry_count, executed_tool_signatures, tools_executed_count,
                 parts_left, had_function_call, pending, model_calls, retried_calls,
                 synthesis_calls, registry_calls>>
  /\ UNCHANGED <<slept, sqlVars, memVars, extVars>>

Next ==
  \/ StartSession
  \/ LoopTop
  \/ LoopExit
  \/ ModelReturnsParts
  \/ ModelReturnsNoCandidates
  \/ ModelFails
  \/ ModelRateLimited
  \/ SkipCall
  \/ DuplicateCall
  \/ NewCall
  \/ ToolReturns
  \/ ToolCallRaises
  \/ TextStep
  \/ IgnorePart
  \/ EndParts
  \/ PostLoop
  \/ SynthReturnsText
  \/ SynthReturnsNoCandidates
  \/ SynthRaises

Spec == Init /\ [][Next]_vars

\* every call the orchestrator awaits either returns or raises, and the
\* orchestrator's own steps are taken
FairSpec == Spec /\ WF_vars(Next)

\* a session in which the service answers every round with requests for one
\* and the same call: every part of every response is a call whose signature
\* is the one requested first
SameRequest(p) ==
  /\ p \in Parts /\ p.fc /\ p.name \in RegisteredTools
  /\ executed_tool_signatures \subseteq {ToolSignature(p.name, p.args)}

RepeatResponse == \E n \in 1..MaxParts : ModelReturns(n)

RepeatNewCall == \E p \in Parts : SameRequest(p) /\ NewCallOf(p)

RepeatDuplicateCall == \E p \in Parts : SameRequest(p) /\ DuplicateCallOf(p)

\* the while condition is left out: it never ends the loop of such a session
RepeatNext ==
  \/ StartSession
  \/ LoopTop
  \/ RepeatResponse
  \/ RepeatNewCall
  \/ RepeatDuplicateCall
  \/ ToolReturns
  \/ ToolCallRaises
  \/ EndParts
  \/ PostLoop
  \/ SynthReturnsText
  \/ SynthReturnsNoCandidates
  \/ SynthRaises

RepeatSpec == Init /\ [][RepeatNext]_vars

\* a delay of d tenths of a second as the service writes it: "45.5", "5",
\* or "5.0" when padded
FormatSeconds(d, padded) ==
  FormatInt(d \div 10)
    \o (IF d % 10 # 0 \/ padded THEN <<".">> \o FormatInt(d % 10) ELSE <<>>)

\* the text of a rate-limit error that suggests a delay
RetryErrorText(d, padded) ==
  <<"4", "2", "9", " ", "q", "u", "o", "t", "a", " ", "e", "x", "c", "e", "e", "d", "e", "d", ",", " ", "p", "l", "e", "a", "s", "e", " ", "r", "e", "t", "r", "y", " ", "i", "n", " ">>
    \o FormatSeconds(d, padded) \o <<"s", ".">>

\* the delays the service suggests, in tenths of a second
SuggestedTenths == {50, 319, 320, 321, 455}

\* the texts of rate-limit errors that suggest no delay
TextsWithoutDelay ==
  { ResourceExhausted,
    <<"Q", "u", "o", "t", "a", " ", "e", "x", "c", "e", "e", "d", "e", "d", " ", "f", "o", "r", " ", "r", "e", "q", "u", "e", "s", "t", "s">>,
    <<"4", "2", "9", " ", "r", "e", "t", "r", "y", " ", "i", "n", " ", "s">> }

RateLimitTexts ==
  { RetryErrorText(d, padded) : d \in SuggestedTenths, padded \in BOOLEAN }
    \cup TextsWithoutDelay

\* a session in which the service answers with rate-limit errors of any of
\* these texts, or with responses that hold nothing to process
RetryRateLimited == \E error_msg \in RateLimitTexts : ModelRateLimitedWith(error_msg)

RetryNext ==
  \/ StartSession
  \/ LoopTop
  \/ RetryRateLimited
  \/ ModelReturnsNoCandidates
  \/ PostLoop

RetrySpec == Init /\ [][RetryNext]_vars

\* the rounds of a session in which the service may request executable calls
ToolRounds == 1

\* a session in which the service requests tools in its first rounds only:
\* every later response holds nothing executable (empty or unnamed calls,
\* unknown tools, no parts or no candidates)
EarlyNewCall == iteration <= ToolRounds /\ NewCall

IdleNext ==
  \/ StartSession
  \/ LoopTop
  \/ LoopExit
  \/ ModelReturnsParts
  \/ ModelReturnsNoCandidates
  \/ SkipCall
  \/ EarlyNewCall
  \/ ToolReturns
  \/ ToolCallRaises
  \/ EndParts
  \/ PostLoop
  \/ SynthReturnsText
  \/ SynthReturnsNoCandidates
  \/ SynthRaises

IdleSpec == Init /\ [][IdleNext]_vars

(***************************************************************************)
(* add_safety_limits applied to one statement, and to its own result       *)
(***************************************************************************)
SelectX == <<"S", "E", "L", "E", "C", "T", " ", "x">>

\* what follows SELECT x in the statements given to add_safety_limits
LimitTokens == {
  <<" ", "F", "R", "O", "M", " ", "t">>,
  <<" ", "F", "R", "O", "M", " ", "l", "i", "m", "i", "t", "s">>,
  <<" ", "O", "R", "D", "E", "R", " ", "B", "Y", " ", "x">>,
  <<" ", "o", "r", "d", "e", "r", " ", "b", "y", " ", "x">>,
  <<" ", "L", "I", "M", "I", "T", " ", "5">>,
  <<";">>,
  <<"\n">>,
  <<" ">> }

\* how many of them follow
MaxClauses == 3

\* every concatenation of at most n of them
RECURSIVE LimitTails(_)
LimitTails(n) ==
  IF n = 0 THEN {<<>>}
  ELSE LET shorter == LimitTails(n - 1)
       IN  shorter \cup { s \o t : s \in shorter, t \in LimitTokens }

LimitInputs == { SelectX \o t : t \in LimitTails(MaxClauses) }

LimitInit ==
  /\ OrchInit /\ sql_text \in LimitInputs /\ SqlIdle /\ MemIdle /\ ExtIdle

\* a caller hands sql_text to add_safety_limits, and then the result of that
AddSafetyLimits ==
  /\ Len(limit_results) < 2
  /\ limit_results' =
       Append(limit_results,
              add_safety_limits(IF limit_results = <<>> THEN sql_text
                                ELSE limit_results[Len(limit_results)]))
  /\ UNCHANGED <<orchVars, sqlVars, memVars, regVars, promptVars, sigVars,
                 histVars, peerVars>>

LimitNext == AddSafetyLimits

LimitSpec == LimitInit /\ [][LimitNext]_vars

(***************************************************************************)
(* ConversationMemory: the rolling buffer of exchanges                     *)
(***************************************************************************)
\* the capacities a memory is constructed with
Capacities == {1, 2, DefaultMaxExchanges}

\* how many exchanges are added to one memory between two clears
MaxAdds == 7

UserQueries == {"q1", "q2"}

\* ChatExchange(...): the serial number stands for the object's identity
ChatExchange(query, serial) ==
  [user_query |-> query, serial |-> serial]

\* a mutant of DequeAppend: the buffer has no capacity
AppendUnbounded(buffer, x, maxlen) == Append(buffer, x)

\* deque(maxlen=maxlen).append(x): at capacity the oldest entry is dropped
DequeAppend(buffer, x, maxlen) ==
  IF maxlen = 0 THEN buffer
  ELSE IF Len(buffer) >= maxlen THEN Append(Tail(buffer), x)
  ELSE Append(buffer, x)

MemInit ==
  /\ OrchInit /\ sql_text = <<>> /\ SqlIdle /\ ExtIdle
  /\ max_exchanges \in Capacities
  /\ MemFresh

AddExchange ==
  /\ Len(added) < MaxAdds
  /\ \E q \in UserQueries :
       LET exchange == ChatExchange(q, Len(added) + 1)
       IN /\ exchanges' = DequeAppend(exchanges, exchange, max_exchanges)
          /\ added' = Append(added, exchange)
  /\ UNCHANGED <<max_exchanges, schema_cache, schema_cache_time, now, ticks,
                 last_read>>
  /\ UNCHANGED <<orchVars, sqlVars, extVars>>

\* clear(): the buffer and the schema cache are emptied
Clear ==
  /\ exchanges' = <<>>
  /\ added' = <<>>
  /\ schema_cache' = NoSchema
  /\ schema_cache_time' = NoTime
  /\ UNCHANGED <<max_exchanges, now, ticks, last_read>>
  /\ UNCHANGED <<orchVars, sqlVars, extVars>>

\* a mutant of LastOf: the entry at the other end of the buffer
FirstOf(buffer) == IF buffer # <<>> THEN buffer[1].serial ELSE 0

\* self.exchanges[-1] if self.exchanges else None
LastOf(buffer) == IF buffer # <<>> THEN buffer[Len(buffer)].serial ELSE 0

GetLastExchange ==
  /\ last_read' = ReadResult("get_last_exchange", LastOf(exchanges), <<>>,
                             NoSchema)
  /\ UNCHANGED <<max_exchanges, exchanges, added, schema_cache,
                 schema_cache_time, now, ticks>>
  /\ UNCHANGED <<orchVars, sqlVars, extVars>>

\* list(self.exchanges)[-n:]: the whole list when n is 0
LastN(buffer, n) ==
  IF n = 0 \/ n >= Len(buffer) THEN buffer
  ELSE SubSeq(buffer, Len(buffer) - n + 1, Len(buffer))

\* the values of num_exchanges; 3 is the default
NumExchanges == {0, 1, 3}

\* get_recent_context(num_exchanges): the exchanges the text is made of
GetRecentContextOf(n) ==
  /\ LET recent == LastN(exchanges, n)
     IN last_read' =
          ReadResult("get_recent_context", 0,
                     [i \in 1..Len(recent) |-> recent[i].serial], NoSchema)
  /\ UNCHANGED <<max_exchanges, exchanges, added, schema_cache,
                 schema_cache_time, now, ticks>>
  /\ UNCHANGED <<orchVars, sqlVars, extVars>>

GetRecentContext == \E n \in NumExchanges : GetRecentContextOf(n)

MemNext ==
  \/ AddExchange
  \/ Clear
  \/ GetLastExchange
  \/ GetRecentContext

MemSpec == MemInit /\ [][MemNext]_vars

(***************************************************************************)
(* ConversationMemory: the schema cache                                    *)
(***************************************************************************)
\* if age < 300
FreshnessWindow == 300

\* timedelta.seconds is the seconds within the day: 0 <= seconds < 86400
SecondsPerDay == 86400

\* how often the clock advances
MaxTicks == 3

\* by how many seconds the clock advances at once
ClockSteps == {1, 299, 300, 86100, 86400}

Tick ==
  /\ ticks < MaxTicks
  /\ \E d \in ClockSteps : now' = now + d
  /\ ticks' = ticks + 1
  /\ UNCHANGED <<max_exchanges, exchanges, added, schema_cache,
                 schema_cache_time, last_read>>
  /\ UNCHANGED <<orchVars, sqlVars, extVars>>

\* cache_schema(schema)
CacheSchema ==
  /\ \E schema \in Schemas : schema_cache' = schema
  /\ schema_cache_time' = now
  /\ UNCHANGED <<max_exchanges, exchanges, added, now, ticks, last_read>>
  /\ UNCHANGED <<orchVars, sqlVars, extVars>>

\* (datetime.now() - self.schema_cache_time).seconds
Age(from, to) == (to - from) % SecondsPerDay

\* the truth value of `self.schema_cache`: None and {} are false
Truthy(schema) == schema \notin {NoSchema, EmptySchema}

\* what get_cached_schema() returns
CachedSchema ==
  IF /\ Truthy(schema_cache)
     /\ schema_cache_time # NoTime
     /\ Age(schema_cache_time, now) < FreshnessWindow
  THEN schema_cache
  ELSE NoSchema

GetCachedSchema ==
  /\ last_read' = ReadResult("get_cached_schema", 0, <<>>, CachedSchema)
  /\ UNCHANGED <<max_exchanges, exchanges, added, schema_cache,
                 schema_cache_time, now, ticks>>
  /\ UNCHANGED <<orchVars, sqlVars, extVars>>

CacheNext ==
  \/ CacheSchema
  \/ Tick
  \/ GetCachedSchema
  \/ Clear

CacheSpec == MemInit /\ [][CacheNext]_vars

\* the sessions of one instance, one after the other
MultiNext == Next \/ NextSession

MultiSpec == Init /\ [][MultiNext]_vars

(***************************************************************************)
(* The SQL texts the gate and the tools are given                          *)
(***************************************************************************)
\* pieces of text the generated inputs are concatenated from
SqlTokens == {
  <<"S", "E", "L", "E", "C", "T">>,
  <<"s", "e", "l", "e", "c", "t">>,
  <<"W", "I", "T", "H">>,
  <<"D", "R", "O", "P">>,
  <<"S", "e", "t">>,
  <<"x">>,
  <<"_">>,
  <<" ">>,
  <<";">>,
  <<"\n">>,
  <<"-", "-">>,
  <<"/", "*">>,
  <<"*", "/">> }

\* every concatenation of at most n tokens
RECURSIVE TokenTexts(_)
TokenTexts(n) ==
  IF n = 0 THEN {<<>>}
  ELSE LET shorter == TokenTexts(n - 1)
       IN  shorter \cup { s \o t : s \in shorter, t \in SqlTokens }

DropTableX ==
    <<"D", "R", "O", "P", " ", "T", "A", "B", "L", "E", " ", "x">>
SelectThenDrop ==
    <<"S", "E", "L", "E", "C", "T", " ", "*", " ", "F", "R", "O", "M", " ",
      "t", ";", " ", "D", "R", "O", "P", " ", "T", "A", "B", "L", "E", " ",
      "t", ";">>
SelectUpdatedAt ==
    <<"S", "E", "L", "E", "C", "T", " ", "u", "p", "d", "a", "t", "e", "d",
      "_", "a", "t", " ", "F", "R", "O", "M", " ", "t">>
SelectCommented ==
    <<"s", "e", "l", "e", "c", "t", " ", "x", " ", "f", "r", "o", "m", " ",
      "t", " ", "/", "*", " ", "a", "\n", "b", " ", "*", "/", " ", "-",
      "-", " ", "D", "R", "O", "P">>
\* a -- inside a block comment: the line comment is removed first
DashesInBlock ==
    <<"/", "*", " ", "-", "-", " ", "*", "/", " ", "S", "E", "L", "E", "C",
      "T", " ", "x">>
SelectPlain ==
    <<"S", "E", "L", "E", "C", "T", " ", "x", " ", "F", "R", "O", "M", " ",
      "t">>
SelectLimited ==
    <<"S", "E", "L", "E", "C", "T", " ", "x", " ", "F", "R", "O", "M", " ",
      "t", " ", "L", "I", "M", "I", "T", " ", "5", "0", "0", "0">>
SelectOrdered ==
    <<"S", "E", "L", "E", "C", "T", " ", "x", " ", "F", "R", "O", "M", " ",
      "t", " ", "O", "R", "D", "E", "R", " ", "B", "Y", " ", "x", ";">>
AnalyzeDelete ==
    <<"A", "N", "A", "L", "Y", "Z", "E", " ", "D", "E", "L", "E", "T", "E",
      " ", "F", "R", "O", "M", " ", "t">>

\* the texts given to is_safe_sql
SqlInputs ==
  TokenTexts(MaxTokens)
    \cup {DropTableX, SelectThenDrop, SelectUpdatedAt, SelectCommented,
          DashesInBlock}

\* the texts given to the tools as their sql / sql_query argument
ToolSqlInputs ==
  {SelectPlain, SelectLimited, SelectOrdered, SelectCommented,
   DropTableX, SelectThenDrop, AnalyzeDelete}

(***************************************************************************)
(* The safety gate applied to one text                                     *)
(***************************************************************************)
GateInit ==
  OrchInit /\ sql_text \in SqlInputs /\ SqlIdle /\ MemIdle /\ ExtIdle

\* a caller asks is_safe_sql about sql_text
CheckSafe ==
  /\ gate_result = "unchecked"
  /\ gate_result' = IF is_safe_sql(sql_text) THEN "safe" ELSE "unsafe"
  /\ UNCHANGED <<sql_text, tool_run, tool_result, db_sent, conn_acquired,
                 conn_open>>
  /\ UNCHANGED <<orchVars, memVars, extVars>>

GateNext == CheckSafe

GateSpec == GateInit /\ [][GateNext]_vars

(***************************************************************************)
(* The tools that send SQL text to the database                            *)
(***************************************************************************)
ToolInit ==
  OrchInit /\ sql_text \in ToolSqlInputs /\ SqlIdle /\ MemIdle /\ ExtIdle

\* what the database does during one tool invocation
DbBehaviours == {"connect_fails", "fetch_fails", "no_rows", "rows"}

\* one statement handed to conn.fetch / conn.fetchval.  free_form: the
\* statement carries the caller's SQL text; gated: is_safe_sql had returned
\* True for that text; limited: the text had gone through add_safety_limits;
\* interpolated: the tool arguments formatted into the statement
Sent(tool, statement, free_form, gated, limited, interpolated) ==
  [tool |-> tool, statement |-> statement, free_form |-> free_form,
   gated |-> gated, limited |-> limited, interpolated |-> interpolated]

\* a tool argument formatted into a statement.  kind: a number or a string;
\* validated: the tool had checked it against the database catalogue
Interpolated(name, kind, text, validated) ==
  [name |-> name, kind |-> kind, text |-> text, validated |-> validated]

\* f"EXPLAIN {sql}"
ExplainPrefix ==
    <<"E", "X", "P", "L", "A", "I", "N", " ">>
\* f"EXPLAIN (FORMAT JSON, ANALYZE) {safe_sql}"
ExplainAnalyzePrefix ==
    <<"E", "X", "P", "L", "A", "I", "N", " ", "(", "F", "O", "R", "M", "A",
      "T", " ", "J", "S", "O", "N", ",", " ", "A", "N", "A", "L", "Y", "Z",
      "E", ")", " ">>
\* f"EXPLAIN (FORMAT JSON) {sql}"
ExplainJsonPrefix ==
    <<"E", "X", "P", "L", "A", "I", "N", " ", "(", "F", "O", "R", "M", "A",
      "T", " ", "J", "S", "O", "N", ")", " ">>

\* f"EXPLAIN ({', '.join(explain_options)}) {sql}"
ExplainOptionsPrefix(analyze) ==
  IF analyze
  THEN <<"E", "X", "P", "L", "A", "I", "N", " ", "(", "F", "O", "R", "M", "A",
         "T", " ", "J", "S", "O", "N", ",", " ", "V", "E", "R", "B", "O", "S",
         "E", ",", " ", "B", "U", "F", "F", "E", "R", "S", ",", " ", "A", "N",
         "A", "L", "Y", "Z", "E", ")", " ">>
  ELSE <<"E", "X", "P", "L", "A", "I", "N", " ", "(", "F", "O", "R", "M", "A",
         "T", " ", "J", "S", "O", "N", ",", " ", "V", "E", "R", "B", "O", "S",
         "E", ",", " ", "B", "U", "F", "F", "E", "R", "S", ")", " ">>

\* a mutant of ExecuteQuery: the text is not put to is_safe_sql
ExecuteQueryUngated(tool, sql, free_form, interpolated, db) ==
  LET safe_sql == add_safety_limits(sql)
      fetched == <<Sent(tool, safe_sql, free_form, FALSE, TRUE, interpolated)>>
  IN  CASE db = "connect_fails" ->
             [raised |-> TRUE, rows |-> FALSE, sent |-> <<>>, acquired |-> 0]
        [] db = "fetch_fails" ->
             [raised |-> TRUE, rows |-> FALSE, sent |-> fetched,
              acquired |-> 1]
        [] OTHER ->
             [raised |-> FALSE, rows |-> db = "rows", sent |-> fetched,
              acquired |-> 1]

\* DatabaseManager.execute_query: the gate, the limit, then one fetch on a
\* connection that the finally clause closes.  raised: an exception left
\* the method; sent: the statements fetched; acquired: connections opened
ExecuteQuery(tool, sql, free_form, interpolated, db) ==
  IF ~is_safe_sql(sql)
  THEN [raised |-> TRUE, rows |-> FALSE, sent |-> <<>>, acquired |-> 0]
  ELSE LET safe_sql == add_safety_limits(sql)
           fetched == <<Sent(tool, safe_sql, free_form, TRUE, TRUE,
                             interpolated)>>
       IN  CASE db = "connect_fails" ->
                  [raised |-> TRUE, rows |-> FALSE, sent |-> <<>>,
                   acquired |-> 0]
             [] db = "fetch_fails" ->
                  [raised |-> TRUE, rows |-> FALSE, sent |-> fetched,
                   acquired |-> 1]
             [] OTHER ->
                  [raised |-> FALSE, rows |-> db = "rows", sent |-> fetched,
                   acquired |-> 1]

\* the limit arguments execute_sql_query is called with
QueryLimits == {5, DefaultLimit}

\* ExecuteSQLQueryTool.execute
ExecuteSqlQuery ==
  /\ tool_run = "none"
  /\ tool_run' = "execute_sql_query"
  /\ \E limit \in QueryLimits, explain_plan \in BOOLEAN, db \in DbBehaviours :
       LET safe_sql == SafeSqlFor(sql_text, limit)
           query == Sent("execute_sql_query", safe_sql, TRUE, TRUE, TRUE, {})
           plan == Sent("execute_sql_query", ExplainAnalyzePrefix \o safe_sql,
                        TRUE, TRUE, TRUE, {})
       IN  IF ~is_safe_sql(sql_text) \/ db = "connect_fails"
           THEN /\ tool_result' = "failed"
                /\ UNCHANGED <<db_sent, conn_acquired, conn_open>>
           ELSE IF db = "fetch_fails"
           THEN /\ tool_result' = "failed"
                /\ db_sent' = Append(db_sent, query)
                /\ conn_acquired' = conn_acquired + 1
                /\ conn_open' = conn_open + 1
           ELSE /\ tool_result' = "success"
                /\ db_sent' = IF explain_plan /\ db = "rows"
                              THEN db_sent \o <<query, plan>>
                              ELSE Append(db_sent, query)
                /\ conn_acquired' = conn_acquired + 1
                /\ UNCHANGED conn_open
  /\ UNCHANGED <<sql_text, gate_result>>
  /\ UNCHANGED <<orchVars, memVars, extVars>>

\* ValidateSQLSyntaxTool.execute
ValidateSqlSyntax ==
  /\ tool_run = "none"
  /\ tool_run' = "validate_sql_syntax"
  /\ tool_result' = "success"
  /\ \E db \in DbBehaviours :
       LET is_safe == is_safe_sql(sql_text)
           explain_query == Sent("validate_sql_syntax",
                                 ExplainPrefix \o sql_text, TRUE, is_safe,
                                 FALSE, {})
       IN  IF db = "connect_fails"
           THEN UNCHANGED <<db_sent, conn_acquired, conn_open>>
           ELSE /\ db_sent' = Append(db_sent, explain_query)
                /\ conn_acquired' = conn_acquired + 1
                /\ conn_open' = IF db = "fetch_fails" THEN conn_open + 1
                                ELSE conn_open
  /\ UNCHANGED <<sql_text, gate_result>>
  /\ UNCHANGED <<orchVars, memVars, extVars>>

\* ExplainQueryPlanTool.execute
ExplainQueryPlan ==
  /\ tool_run = "none"
  /\ tool_run' = "explain_query_plan"
  /\ \E analyze \in BOOLEAN, db \in DbBehaviours :
       LET explain_query == Sent("explain_query_plan",
                                 ExplainOptionsPrefix(analyze) \o sql_text,
                                 TRUE, TRUE, FALSE, {})
       IN  IF ~is_safe_sql(sql_text) \/ db = "connect_fails"
           THEN /\ tool_result' = "failed"
                /\ UNCHANGED <<db_sent, conn_acquired, conn_open>>
           ELSE /\ db_sent' = Append(db_sent, explain_query)
                /\ conn_acquired' = conn_acquired + 1
                /\ IF db = "fetch_fails"
                   THEN tool_result' = "failed" /\ conn_open' = conn_open + 1
                   ELSE tool_result' = "success" /\ UNCHANGED conn_open
  /\ UNCHANGED <<sql_text, gate_result>>
  /\ UNCHANGED <<orchVars, memVars, extVars>>

\* OptimizeQueryTool.execute
OptimizeQuery ==
  /\ tool_run = "none"
  /\ tool_run' = "optimize_query"
  /\ tool_result' = "success"
  /\ \E db \in DbBehaviours :
       LET explain_query == Sent("optimize_query",
                                 ExplainJsonPrefix \o sql_text, TRUE, TRUE,
                                 FALSE, {})
       IN  IF db = "connect_fails"
           THEN UNCHANGED <<db_sent, conn_acquired, conn_open>>
           ELSE /\ conn_acquired' = conn_acquired + 1
                /\ IF is_safe_sql(sql_text)
                   THEN /\ db_sent' = Append(db_sent, explain_query)
                        /\ conn_open' = IF db = "fetch_fails"
                                        THEN conn_open + 1 ELSE conn_open
                   ELSE UNCHANGED <<db_sent, conn_open>>
  /\ UNCHANGED <<sql_text, gate_result>>
  /\ UNCHANGED <<orchVars, memVars, extVars>>

ChartTools == {"generate_bar_chart", "generate_line_chart",
               "generate_pie_chart", "generate_scatter_plot"}

\* the execute of each chart tool, up to the rows of its query
ChartTool ==
  /\ tool_run = "none"
  /\ \E chart \in ChartTools, db \in DbBehaviours :
       LET results == ExecuteQuery(chart, sql_text, TRUE, {}, db)
       IN  /\ tool_run' = chart
           /\ tool_result' = IF results.raised \/ ~results.rows
                             THEN "failed" ELSE "success"
           /\ db_sent' = db_sent \o results.sent
           /\ conn_acquired' = conn_acquired + results.acquired
  /\ UNCHANGED <<sql_text, gate_result, conn_open>>
  /\ UNCHANGED <<orchVars, memVars, extVars>>

(***************************************************************************)
(* Tools with fixed query shapes                                           *)
(***************************************************************************)
\* the existence check of get_table_sample_data; table_name is bound to $1
TableExistsQuery ==
    <<"S", "E", "L", "E", "C", "T", " ", "E", "X", "I", "S", "T", "S", " ",
      "(", "S", "E", "L", "E", "C", "T", " ", "F", "R", "O", "M", " ", "i",
      "n", "f", "o", "r", "m", "a", "t", "i", "o", "n", "_", "s", "c", "h",
      "e", "m", "a", ".", "t", "a", "b", "l", "e", "s", " ", "W", "H", "E",
      "R", "E", " ", "t", "a", "b", "l", "e", "_", "s", "c", "h", "e", "m",
      "a", " ", "=", " ", "'", "p", "u", "b", "l", "i", "c", "'", " ", "A",
      "N", "D", " ", "t", "a", "b", "l", "e", "_", "n", "a", "m", "e", " ",
      "=", " ", "$", "1", ")">>
\* col_query; table_name is bound to $1
ColumnsQuery ==
    <<"S", "E", "L", "E", "C", "T", " ", "c", "o", "l", "u", "m", "n", "_",
      "n", "a", "m", "e", ",", " ", "d", "a", "t", "a", "_", "t", "y", "p",
      "e", " ", "F", "R", "O", "M", " ", "i", "n", "f", "o", "r", "m", "a",
      "t", "i", "o", "n", "_", "s", "c", "h", "e", "m", "a", ".", "c", "o",
      "l", "u", "m", "n", "s", " ", "W", "H", "E", "R", "E", " ", "t", "a",
      "b", "l", "e", "_", "s", "c", "h", "e", "m", "a", " ", "=", " ", "'",
      "p", "u", "b", "l", "i", "c", "'", " ", "A", "N", "D", " ", "t", "a",
      "b", "l", "e", "_", "n", "a", "m", "e", " ", "=", " ", "$", "1", " ",
      "O", "R", "D", "E", "R", " ", "B", "Y", " ", "o", "r", "d", "i", "n",
      "a", "l", "_", "p", "o", "s", "i", "t", "i", "o", "n">>

\* the tables of the public schema
ExistingTables == {<<"t">>}

\* the arguments get_table_sample_data is called with; <<>> is an argument
\* left out (None)
TableNames == {<<"t">>, <<"u">>}
ColumnArgs == {<<>>, <<"x">>, <<"x", " ", "F", "R", "O", "M", " ", "s", " ", "-", "-">>}
WhereArgs == {<<>>, <<"x", " ", ">", " ", "0">>,
              <<"1", "=", "1", ";", " ", "D", "R", "O", "P", " ", "T", "A", "B", "L",
      "E", " ", "t">>}
\* limit: the declared default and a smaller number
LimitArgs == {10, 3}

\* query as GetTableSampleDataTool.execute builds it
SampleQuery(table_name, limit, columns, where_clause) ==
  LET select_columns == IF columns # <<>> THEN columns ELSE <<"*">>
  IN  <<"S", "E", "L", "E", "C", "T", " ">> \o select_columns
        \o <<" ", "F", "R", "O", "M", " ">> \o table_name
        \o (IF where_clause # <<>>
            THEN <<" ", "W", "H", "E", "R", "E", " ">> \o where_clause
            ELSE <<>>)
        \o <<" ", "L", "I", "M", "I", "T", " ">> \o FormatInt(limit)

\* the arguments formatted into that query
SampleArgs(table_name, limit, columns, where_clause) ==
  {Interpolated("table_name", "string", table_name, TRUE),
   Interpolated("limit", "number", FormatInt(limit), FALSE)}
    \cup (IF columns # <<>>
          THEN {Interpolated("columns", "string", columns, FALSE)} ELSE {})
    \cup (IF where_clause # <<>>
          THEN {Interpolated("where_clause", "string", where_clause, FALSE)}
          ELSE {})

\* GetTableSampleDataTool.execute
GetTableSampleData ==
  /\ tool_run = "none"
  /\ tool_run' = "get_table_sample_data"
  /\ \E table_name \in TableNames, limit \in LimitArgs, columns \in ColumnArgs,
        where_clause \in WhereArgs, db \in DbBehaviours :
       LET tool == "get_table_sample_data"
           table_exists == Sent(tool, TableExistsQuery, FALSE, FALSE, FALSE, {})
           query == Sent(tool,
                         SampleQuery(table_name, limit, columns, where_clause),
                         FALSE, FALSE, FALSE,
                         SampleArgs(table_name, limit, columns, where_clause))
           col_query == Sent(tool, ColumnsQuery, FALSE, FALSE, FALSE, {})
       IN  IF db = "connect_fails"
           THEN /\ tool_result' = "failed"
                /\ UNCHANGED <<db_sent, conn_acquired, conn_open>>
           ELSE IF table_name \notin ExistingTables
           THEN /\ tool_result' = "failed"
                /\ db_sent' = Append(db_sent, table_exists)
                /\ conn_acquired' = conn_acquired + 1
                /\ conn_open' = conn_open + 1
           ELSE IF db = "fetch_fails"
           THEN /\ tool_result' = "failed"
                /\ db_sent' = db_sent \o <<table_exists, query>>
                /\ conn_acquired' = conn_acquired + 1
                /\ conn_open' = conn_open + 1
           ELSE /\ tool_result' = "success"
                /\ db_sent' = db_sent \o <<table_exists, query>>
                                \o (IF columns = <<>> THEN <<col_query>>
                                    ELSE <<>>)
                /\ conn_acquired' = conn_acquired + 1
                /\ UNCHANGED conn_open
  /\ UNCHANGED <<sql_text, gate_result>>
  /\ UNCHANGED <<orchVars, memVars, extVars>>

\* the arguments detect_revenue_anomalies is called with
AnomalyTables == {<<"t">>, <<"t", ",", " ", "s">>,
                  <<"t", ";", " ", "D", "R", "O", "P", " ", "T", "A", "B", "L", "E", " ",
      "t">>}
RevenueColumns == {<<"x">>, <<"x", " ", "=", " ", "0", " ", "O", "R", " ", "x">>}

\* query as DetectRevenueAnomalies.execute builds it
AnomalyQuery(table_name, revenue_column) ==
  <<"\n", "S", "E", "L", "E", "C", "T", "\n", "*", "\n", "F", "R", "O",
    "M", " ">> \o table_name
    \o <<"\n", "W", "H", "E", "R", "E", " ">> \o revenue_column
    \o <<" ", "I", "S", " ", "N", "O", "T", " ", "N", "U", "L", "L", "\n",
      "A", "N", "D", " ">> \o revenue_column
    \o <<" ", ">", " ", "0", "\n", "O", "R", "D", "E", "R", " ", "B", "Y",
      " ">> \o revenue_column
    \o <<" ", "D", "E", "S", "C", "\n", "L", "I", "M", "I", "T", " ", "1",
      "0", "0", "0", ";", "\n">>

\* DetectRevenueAnomalies.execute, up to the rows of its query
DetectRevenueAnomalies ==
  /\ tool_run = "none"
  /\ tool_run' = "detect_revenue_anomalies"
  /\ \E table_name \in AnomalyTables, revenue_column \in RevenueColumns,
        db \in DbBehaviours :
       LET args == {Interpolated("table_name", "string", table_name, FALSE),
                    Interpolated("revenue_column", "string", revenue_column,
                                 FALSE)}
           results == ExecuteQuery("detect_revenue_anomalies",
                                   AnomalyQuery(table_name, revenue_column),
                                   FALSE, args, db)
       IN  /\ tool_result' = IF results.raised \/ ~results.rows
                             THEN "failed" ELSE "success"
           /\ db_sent' = db_sent \o results.sent
           /\ conn_acquired' = conn_acquired + results.acquired
  /\ UNCHANGED <<sql_text, gate_result, conn_open>>
  /\ UNCHANGED <<orchVars, memVars, extVars>>

\* the four fixed statements of GetKeyBusinessMetricsTool.execute
revenue_query ==
    <<"\n", " ", " ", " ", " ", " ", " ", " ", " ", " ", " ", " ", " ", " ",
      " ", " ", " ", "S", "E", "L", "E", "C", "T", " ", "\n", " ", " ", " ",
      " ", " ", " ", " ", " ", " ", " ", " ", " ", " ", " ", " ", " ", " ",
      " ", " ", " ", "C", "O", "U", "N", "T", "(", "*", ")", " ", "a", "s",
      " ", "t", "o", "t", "a", "l", "_", "s", "a", "l", "e", "s", ",", "\n",
      " ", " ", " ", " ", " ", " ", " ", " ", " ", " ", " ", " ", " ", " ",
      " ", " ", " ", " ", " ", " ", "S", "U", "M", "(", "r", "e", "v", "e",
      "n", "u", "e", ")", " ", "a", "s", " ", "t", "o", "t", "a", "l", "_",
      "r", "e", "v", "e", "n", "u", "e", ",", "\n", " ", " ", " ", " ", " ",
      " ", " ", " ", " ", " ", " ", " ", " ", " ", " ", " ", " ", " ", " ",
      " ", "A", "V", "G", "(", "r", "e", "v", "e", "n", "u", "e", ")", " ",
      "a", "s", " ", "a", "v", "g", "_", "o", "r", "d", "e", "r", "_", "v",
      "a", "l", "u", "e", ",", "\n", " ", " ", " ", " ", " ", " ", " ", " ",
      " ", " ", " ", " ", " ", " ", " ", " ", " ", " ", " ", " ", "S", "U",
      "M", "(", "q", "u", "a", "n", "t", "i", "t", "y", ")", " ", "a", "s",
      " ", "t", "o", "t", "a", "l", "_", "q", "u", "a", "n", "t", "i", "t",
      "y", "\n", " ", " ", " ", " ", " ", " ", " ", " ", " ", " ", " ", " ",
      " ", " ", " ", " ", "F", "R", "O", "M", " ", "s", "a", "l", "e", "s",
      "\n", " ", " ", " ", " ", " ", " ", " ", " ", " ", " ", " ", " ">>
top_products_query ==
    <<"\n", " ", " ", " ", " ", " ", " ", " ", " ", " ", " ", " ", " ", " ",
      " ", " ", " ", "S", "E", "L", "E", "C", "T", " ", "\n", " ", " ", " ",
      " ", " ", " ", " ", " ", " ", " ", " ", " ", " ", " ", " ", " ", " ",
      " ", " ", " ", "p", ".", "p", "r", "o", "d", "u", "c", "t", "_", "n",
      "a", "m", "e", ",", "\n", " ", " ", " ", " ", " ", " ", " ", " ", " ",
      " ", " ", " ", " ", " ", " ", " ", " ", " ", " ", " ", "S", "U", "M",
      "(", "s", ".", "r", "e", "v", "e", "n", "u", "e", ")", " ", "a", "s",
      " ", "t", "o", "t", "a", "l", "_", "r", "e", "v", "e", "n", "u", "e",
      ",", "\n", " ", " ", " ", " ", " ", " ", " ", " ", " ", " ", " ", " ",
      " ", " ", " ", " ", " ", " ", " ", " ", "C", "O", "U", "N", "T", "(",
      "*", ")", " ", "a", "s", " ", "s", "a", "l", "e", "s", "_", "c", "o",
      "u", "n", "t", "\n", " ", " ", " ", " ", " ", " ", " ", " ", " ", " ",
      " ", " ", " ", " ", " ", " ", "F", "R", "O", "M", " ", "s", "a", "l",
      "e", "s", " ", "s", " ", "\n", " ", " ", " ", " ", " ", " ", " ", " ",
      " ", " ", " ", " ", " ", " ", " ", " ", "J", "O", "I", "N", " ", "p",
      "r", "o", "d", "u", "c", "t", "s", " ", "p", " ", "O", "N", " ", "s",
      ".", "p", "r", "o", "d", "u", "c", "t", "_", "i", "d", " ", "=", " ",
      "p", ".", "i", "d", " ", "\n", " ", " ", " ", " ", " ", " ", " ", " ",
      " ", " ", " ", " ", " ", " ", " ", " ", "G", "R", "O", "U", "P", " ",
      "B", "Y", " ", "p", ".", "p", "r", "o", "d", "u", "c", "t", "_", "n",
      "a", "m", "e", " ", "\n", " ", " ", " ", " ", " ", " ", " ", " ", " ",
      " ", " ", " ", " ", " ", " ", " ", "O", "R", "D", "E", "R", " ", "B",
      "Y", " ", "t", "o", "t", "a", "l", "_", "r", "e", "v", "e", "n", "u",
      "e", " ", "D", "E", "S", "C", " ", "\n", " ", " ", " ", " ", " ", " ",
      " ", " ", " ", " ", " ", " ", " ", " ", " ", " ", "L", "I", "M", "I",
      "T", " ", "5", "\n", " ", " ", " ", " ", " ", " ", " ", " ", " ", " ",
      " ", " ">>
market_query ==
    <<"\n", " ", " ", " ", " ", " ", " ", " ", " ", " ", " ", " ", " ", " ",
      " ", " ", " ", "S", "E", "L", "E", "C", "T", " ", "\n", " ", " ", " ",
      " ", " ", " ", " ", " ", " ", " ", " ", " ", " ", " ", " ", " ", " ",
      " ", " ", " ", "m", ".", "m", "a", "r", "k", "e", "t", "_", "n", "a",
      "m", "e", ",", "\n", " ", " ", " ", " ", " ", " ", " ", " ", " ", " ",
      " ", " ", " ", " ", " ", " ", " ", " ", " ", " ", "S", "U", "M", "(",
      "s", ".", "r", "e", "v", "e", "n", "u", "e", ")", " ", "a", "s", " ",
      "m", "a", "r", "k", "e", "t", "_", "r", "e", "v", "e", "n", "u", "e",
      ",", "\n", " ", " ", " ", " ", " ", " ", " ", " ", " ", " ", " ", " ",
      " ", " ", " ", " ", " ", " ", " ", " ", "C", "O", "U", "N", "T", "(",
      "*", ")", " ", "a", "s", " ", "s", "a", "l", "e", "s", "_", "c", "o",
      "u", "n", "t", "\n", " ", " ", " ", " ", " ", " ", " ", " ", " ", " ",
      " ", " ", " ", " ", " ", " ", "F", "R", "O", "M", " ", "s", "a", "l",
      "e", "s", " ", "s", " ", "\n", " ", " ", " ", " ", " ", " ", " ", " ",
      " ", " ", " ", " ", " ", " ", " ", " ", "J", "O", "I", "N", " ", "m",
      "a", "r", "k", "e", "t", "s", " ", "m", " ", "O", "N", " ", "s", ".",
      "m", "a", "r", "k", "e", "t", "_", "i", "d", " ", "=", " ", "m", ".",
      "i", "d", " ", "\n", " ", " ", " ", " ", " ", " ", " ", " ", " ", " ",
      " ", " ", " ", " ", " ", " ", "G", "R", "O", "U", "P", " ", "B", "Y",
      " ", "m", ".", "m", "a", "r", "k", "e", "t", "_", "n", "a", "m", "e",
      " ", "\n", " ", " ", " ", " ", " ", " ", " ", " ", " ", " ", " ", " ",
      " ", " ", " ", " ", "O", "R", "D", "E", "R", " ", "B", "Y", " ", "m",
      "a", "r", "k", "e", "t", "_", "r", "e", "v", "e", "n", "u", "e", " ",
      "D", "E", "S", "C", "\n", " ", " ", " ", " ", " ", " ", " ", " ", " ",
      " ", " ", " ">>
monthly_query ==
    <<"\n", " ", " ", " ", " ", " ", " ", " ", " ", " ", " ", " ", " ", " ",
      " ", " ", " ", "S", "E", "L", "E", "C", "T", " ", "\n", " ", " ", " ",
      " ", " ", " ", " ", " ", " ", " ", " ", " ", " ", " ", " ", " ", " ",
      " ", " ", " ", "D", "A", "T", "E", "_", "T", "R", "U", "N", "C", "(",
      "'", "m", "o", "n", "t", "h", "'", ",", " ", "s", "a", "l", "e", "_",
      "d", "a", "t", "e", ")", " ", "a", "s", " ", "m", "o", "n", "t", "h",
      ",", "\n", " ", " ", " ", " ", " ", " ", " ", " ", " ", " ", " ", " ",
      " ", " ", " ", " ", " ", " ", " ", " ", "S", "U", "M", "(", "r", "e",
      "v", "e", "n", "u", "e", ")", " ", "a", "s", " ", "m", "o", "n", "t",
      "h", "l", "y", "_", "r", "e", "v", "e", "n", "u", "e", ",", "\n", " ",
      " ", " ", " ", " ", " ", " ", " ", " ", " ", " ", " ", " ", " ", " ",
      " ", " ", " ", " ", " ", "C", "O", "U", "N", "T", "(", "*", ")", " ",
      "a", "s", " ", "m", "o", "n", "t", "h", "l", "y", "_", "s", "a", "l",
      "e", "s", "\n", " ", " ", " ", " ", " ", " ", " ", " ", " ", " ", " ",
      " ", " ", " ", " ", " ", "F", "R", "O", "M", " ", "s", "a", "l", "e",
      "s", " ", "\n", " ", " ", " ", " ", " ", " ", " ", " ", " ", " ", " ",
      " ", " ", " ", " ", " ", "W", "H", "E", "R", "E", " ", "s", "a", "l",
      "e", "_", "d", "a", "t", "e", " ", ">", "=", " ", "C", "U", "R", "R",
      "E", "N", "T", "_", "D", "A", "T", "E", " ", "-", " ", "I", "N", "T",
      "E", "R", "V", "A", "L", " ", "'", "1", "2", " ", "m", "o", "n", "t",
      "h", "s", "'", "\n", " ", " ", " ", " ", " ", " ", " ", " ", " ", " ",
      " ", " ", " ", " ", " ", " ", "G", "R", "O", "U", "P", " ", "B", "Y",
      " ", "m", "o", "n", "t", "h", " ", "\n", " ", " ", " ", " ", " ", " ",
      " ", " ", " ", " ", " ", " ", " ", " ", " ", " ", "O", "R", "D", "E",
      "R", " ", "B", "Y", " ", "m", "o", "n", "t", "h", " ", "D", "E", "S",
      "C", "\n", " ", " ", " ", " ", " ", " ", " ", " ", " ", " ", " ", " ",
      " ", " ", " ", " ", "L", "I", "M", "I", "T", " ", "1", "2", "\n", " ",
      " ", " ", " ", " ", " ", " ", " ", " ", " ", " ", " ">>

\* GetKeyBusinessMetricsTool.execute: the statements are sent one after the
\* other until one fails; the connection is not closed on any path
GetKeyBusinessMetrics ==
  /\ tool_run = "none"
  /\ tool_run' = "get_key_business_metrics"
  /\ \E db \in DbBehaviours, failing \in 1..4 :
       LET tool == "get_key_business_metrics"
           queries == <<Sent(tool, revenue_query, FALSE, FALSE, FALSE, {}),
                        Sent(tool, top_products_query, FALSE, FALSE, FALSE, {}),
                        Sent(tool, market_query, FALSE, FALSE, FALSE, {}),
                        Sent(tool, monthly_query, FALSE, FALSE, FALSE, {})>>
       IN  IF db = "connect_fails"
           THEN /\ tool_result' = "failed"
                /\ UNCHANGED <<db_sent, conn_acquired, conn_open>>
           ELSE /\ tool_result' = IF db = "fetch_fails" THEN "failed"
                                  ELSE "success"
                /\ db_sent' = db_sent \o (IF db = "fetch_fails"
                                          THEN SubSeq(queries, 1, failing)
                                          ELSE queries)
                /\ conn_acquired' = conn_acquired + 1
                /\ conn_open' = conn_open + 1
  /\ UNCHANGED <<sql_text, gate_result>>
  /\ UNCHANGED <<orchVars, memVars, extVars>>

ToolNext ==
  \/ ExecuteSqlQuery
  \/ ValidateSqlSyntax
  \/ ExplainQueryPlan
  \/ OptimizeQuery
  \/ ChartTool
  \/ GetTableSampleData
  \/ DetectRevenueAnomalies
  \/ GetKeyBusinessMetrics

ToolSpec == ToolInit /\ [][ToolNext]_vars

(***************************************************************************)
(* Properties of the orchestrator loop                                     *)
(***************************************************************************)
\* an argument map as a mapping: the set of its (key, value) pairs
ArgsOf(parameters) == { parameters[i] : i \in 1..Len(parameters) }

\* two calls name the same tool with identical arguments
SameCall(a, b) ==
  a.tool_name = b.tool_name /\ ArgsOf(a.parameters) = ArgsOf(b.parameters)

Last(steps) == steps[Len(steps)]

\* the loop itself recorded a conclusion (a text part classified as one)
LoopConcluded ==
  \E i \in 1..Len(current_investigation) :
    /\ current_investigation[i].step_type = "conclusion"
    /\ current_investigation[i].result = "text"

\* C1: within one session no two recorded tool_call steps name the same tool
\* with the same arguments (whatever the order of the keys), and no call is
\* passed to the Tool Registry twice.
C1_NoDuplicateToolCalls ==
  /\ \A i, j \in 1..Len(current_investigation) :
       (/\ i < j
        /\ current_investigation[i].step_type = "tool_call"
        /\ current_investigation[j].step_type = "tool_call")
       => ~SameCall(current_investigation[i], current_investigation[j])
  /\ \A i, j \in 1..Len(registry_calls) :
       i < j => ~SameCall(registry_calls[i], registry_calls[j])

\* a call was executed and recorded, and a later request was skipped as a
\* duplicate
C1_Witness ==
  /\ duplicate_call_count >= 1
  /\ HasStep(current_investigation, "tool_call")
  /\ Len(registry_calls) = 1

\* C5 (as claimed): every call of ToolRegistry.execute_tool returns a
\* ToolResult; none raises to its caller.
C5_NeverRaises ==
  \A i \in 1..Len(registry_calls) :
    registry_calls[i].outcome \in {"pending", "success", "failed"}

\* C6: a session terminates, having made at most 8 tool-enabled model calls
\* that were not retried after a rate-limit error and at most 2 retried ones.
C6_Terminates ==
  /\ [](model_calls - retried_calls <= 8 /\ retried_calls <= 2)
  /\ <>(pc = "done")

\* a finished session that used its whole budget: 8 calls and 2 retried ones
C6_Witness ==
  pc = "done" /\ model_calls - retried_calls = 8 /\ retried_calls = 2

\* C7: a rate-limit error is retried without consuming an iteration slot, at
\* most 2 times per session; a rate-limit error after that emits an error step
\* describing quota exhaustion and ends the loop.
C7_RateLimitRetry ==
  /\ [](retry_count <= 2 /\ retried_calls = retry_count)
  /\ [](pc = "await_model" => iteration = model_calls - retried_calls)
  /\ [][(ModelRateLimited /\ retry_count < 2)
          => /\ pc' = "loop"
             /\ retry_count' = retry_count + 1
             /\ Last(yielded').step_type = "retry"]_vars
  /\ [][(ModelRateLimited /\ retry_count >= 2)
          => /\ pc' = "post_loop"
             /\ Last(yielded') =
                  Step("error", EmptyName, <<>>, "quota_exhausted")
             /\ UNCHANGED <<retry_count, model_calls>>]_vars

\* the third rate-limit error of a session has ended the loop with an error
C7_Witness ==
  /\ retry_count = 2
  /\ pc = "post_loop"
  /\ yielded # <<>>
  /\ Last(yielded).result = "quota_exhausted"

C9_AlwaysNarrative ==
  (pc = "done" /\ ~LoopConcluded /\ synthesis_calls = 1)
    => /\ current_investigation # <<>>
       /\ Last(current_investigation).step_type = "conclusion"
       /\ Last(current_investigation).result # ""

\* C10: when a text part is classified as conclusion the step is recorded and
\* the session ends at once: nothing more is processed, executed or called.
C10_ConclusionEnds ==
  /\ [][(pc = "parts" /\ yielded # yielded'
           /\ Last(yielded').step_type = "conclusion")
          => /\ current_investigation' =
                  Append(current_investigation, Last(yielded'))
             /\ pc' = "done"]_vars
  /\ [][pc = "done"
          => UNCHANGED <<pc, parts_left, current_investigation, yielded,
                         model_calls, synthesis_calls, registry_calls>>]_vars

\* a session ended by a conclusion while parts of the response were left
C10_Witness ==
  pc = "done" /\ LoopConcluded /\ parts_left > 0 /\ synthesis_calls = 0

(***************************************************************************)
(* Properties of the safety gate and of the tools that send SQL            *)
(***************************************************************************)
\* position i of s lies in a -- comment: a -- starts at or before i on the
\* same line
InLineComment(s, i) ==
  \E j \in 1..i : HasAt(s, j, <<"-", "-">>) /\ \A k \in j..i : s[k] # "\n"

\* the characters of s at the positions in keep, in order
Restrict(s, keep) ==
  [n \in 1..Cardinality(keep) |->
     s[CHOOSE i \in keep : Cardinality({ j \in keep : j <= i }) = n]]

WithoutLineComments(s) ==
  Restrict(s, { i \in 1..Len(s) : ~InLineComment(s, i) })

\* the positions of s where a /* opens that a later */ closes
ClosedOpeners(s) ==
  { o \in 1..Len(s) :
      HasAt(s, o, <<"/", "*">>)
        /\ \E c \in (o + 2)..Len(s) : HasAt(s, c, <<"*", "/">>) }

\* s without its /* */ comments: the text before the first comment, then
\* the rest of the text after that comment's first */
RECURSIVE WithoutBlockComments(_)
WithoutBlockComments(s) ==
  IF ClosedOpeners(s) = {} THEN s
  ELSE LET o == CHOOSE a \in ClosedOpeners(s) :
                  \A b \in ClosedOpeners(s) : a <= b
           c == CHOOSE a \in (o + 2)..Len(s) :
                  /\ HasAt(s, a, <<"*", "/">>)
                  /\ \A b \in (o + 2)..(a - 1) : ~HasAt(s, b, <<"*", "/">>)
       IN  SubSeq(s, 1, o - 1) \o WithoutBlockComments(SubSeq(s, c + 2, Len(s)))

\* s without leading and trailing white space
RECURSIVE Trimmed(_)
Trimmed(s) ==
  IF s = <<>> THEN s
  ELSE IF IsSpace(Head(s)) THEN Trimmed(Tail(s))
  ELSE IF IsSpace(s[Len(s)]) THEN Trimmed(SubSeq(s, 1, Len(s) - 1))
  ELSE s

\* the whole words of s: its maximal runs of word characters
Words(s) ==
  { SubSeq(s, a, b) : <<a, b>> \in
      { ab \in (1..Len(s)) \X (1..Len(s)) :
          /\ ab[1] <= ab[2]
          /\ \A k \in ab[1]..ab[2] : IsWordChar(s[k])
          /\ ab[1] = 1 \/ ~IsWordChar(s[ab[1] - 1])
          /\ ab[2] = Len(s) \/ ~IsWordChar(s[ab[2] + 1]) } }

\* the text starts with SELECT or WITH and no denylisted keyword is one of
\* its whole words, once comments are removed and it is trimmed and
\* uppercased
CleanSelect(s) ==
  LET text == ToUpper(Trimmed(WithoutBlockComments(WithoutLineComments(s))))
  IN  /\ \/ Len(text) >= 6 /\ SubSeq(text, 1, 6) = SelectKw
         \/ Len(text) >= 4 /\ SubSeq(text, 1, 4) = WithKw
      /\ Words(text) \cap dangerous_keywords = {}

\* C3: is_safe_sql returns true exactly for the texts that, cleaned of
\* comments, trimmed and uppercased, start with SELECT or WITH and hold none
\* of the 16 denylisted keywords as a whole word; it returns false for
\* "DROP TABLE x" and for "SELECT * FROM t; DROP TABLE t;"
C3_SafeIffCleanSelect ==
  gate_result # "unchecked" =>
    /\ Cardinality(dangerous_keywords) = 16
    /\ gate_result = "safe" <=> CleanSelect(sql_text)
    /\ sql_text \in {DropTableX, SelectThenDrop} => gate_result = "unsafe"

\* the gate has rejected a text that starts with SELECT for the DROP after it
C3_Witness == sql_text = SelectThenDrop /\ gate_result = "unsafe"

\* C2: every statement carrying free-form SQL text that a tool sends to the
\* database was sent after is_safe_sql returned true for the text and after
\* the text went through add_safety_limits
C2_GatedAndLimited ==
  \A i \in 1..Len(db_sent) :
    db_sent[i].free_form => db_sent[i].gated /\ db_sent[i].limited

\* C4: every string argument that a fixed-shape tool formats into a
\* statement it sends was validated as an existing identifier
C4_OnlyValidatedArguments ==
  \A i \in 1..Len(db_sent) :
    \A a \in db_sent[i].interpolated : a.kind = "string" => a.validated

(***************************************************************************)
(* Properties of the session and the Conversation Memory                   *)
(***************************************************************************)
\* C11: every session that has reached its end has appended exactly one
\* exchange to the Conversation Memory: the number of add_exchange calls
\* equals the number of sessions run
C11_OneExchangePerSession ==
  pc = "done" => Len(added) = session /\ Len(exchanges) = session

\* the steps of the given type among the recorded steps
StepsOfType(steps, type) ==
  { i \in 1..Len(steps) : steps[i].step_type = type }

\* C12: at the end of every session of an instance, the first and the later
\* ones, the number of recorded tool_call steps equals tools_executed_count
\* plus the number of the session's tool executions that returned a failed
\* result
C12_ToolStepsCounted ==
  pc = "done" =>
    Cardinality(StepsOfType(current_investigation, "tool_call"))
      = tools_executed_count
        + Cardinality({ i \in StepsOfType(current_investigation, "tool_call") :
                          current_investigation[i].result = "failed" })

\* C13: once the duplicate streak has reached three, no further call is handed
\* to the tool registry and no further tool-enabled model call is made in the
\* session, the later parts of the same response included
C13_StreakEndsLoop ==
  [][duplicate_call_count >= DuplicateCap =>
       /\ Len(registry_calls') = Len(registry_calls)
       /\ model_calls' = model_calls]_vars

C15_EmptyRoundsEndLoop == model_calls <= ToolRounds + EmptyCallCap

\* the retry steps yielded up to and including the step at position i
RetriesUpTo(i) ==
  Cardinality({ j \in StepsOfType(yielded, "retry") : j <= i })

\* C16: every retry step records as its delay the larger of the delay the
\* error text suggests and 32 s, and 32 s when the text suggests none; its
\* retry_attempt is the number of retries made so far in the session; and
\* the orchestrator has slept for that delay, once per retry
C16_RetryDelay ==
  /\ Len(slept) = Cardinality(StepsOfType(yielded, "retry"))
  /\ \A i \in StepsOfType(yielded, "retry") :
       /\ yielded[i].retry_attempt = RetriesUpTo(i)
       /\ slept[RetriesUpTo(i)] = yielded[i].delay
       /\ \A d \in SuggestedTenths, padded \in BOOLEAN :
            yielded[i].quota_info = RetryErrorText(d, padded) =>
              yielded[i].delay = (IF d > Tenths(32) THEN d ELSE Tenths(32))
       /\ yielded[i].quota_info \in TextsWithoutDelay =>
            yielded[i].delay = Tenths(32)

\* a first retry after a suggestion of 5 s that slept 32 s, and a second one
\* after a suggestion of 45.5 s that slept 45.5 s
C16_Witness ==
  /\ Len(yielded) = 2
  /\ yielded[1].retry_attempt = 1
  /\ yielded[1].quota_info = RetryErrorText(50, FALSE)
  /\ yielded[2].retry_attempt = 2
  /\ yielded[2].quota_info = RetryErrorText(455, FALSE)
  /\ slept = <<Tenths(32), 455>>
  /\ pc = "await_model"

\* C17: whenever the tool-enabled model call fails for good (a rate limit
\* beyond the retry cap, or any other failure of the call), the step that
\* handles the failure yields an error step
C17_FailedCallEmitsError ==
  [][(ModelFails \/ (ModelRateLimited /\ ~MayRetry(retry_count))) =>
       /\ Len(yielded') = Len(yielded) + 1
       /\ Last(yielded').step_type = "error"]_vars

\* C18: the buffer never holds more than max_exchanges exchanges, the default
\* capacity of 5 included, and holds them in the order they were added
C18_BoundedInOrder ==
  /\ Len(exchanges) <= max_exchanges
  /\ \A i, j \in 1..Len(exchanges) :
       i < j => exchanges[i].serial < exchanges[j].serial

\* a memory of the default capacity is full after more additions than it
\* holds, and has been read
C18_Witness ==
  /\ max_exchanges = DefaultMaxExchanges
  /\ Len(added) > max_exchanges
  /\ Len(exchanges) = max_exchanges
  /\ last_read.op = "get_recent_context"

\* the smaller of two numbers
Smaller(a, b) == IF a <= b THEN a ELSE b

\* C19: after k additions to a memory of capacity c the buffer holds the last
\* min(k, c) exchanges added, oldest first; get_last_exchange returns the one
\* added last (None when the buffer is empty); and no read returns an
\* exchange that c later additions have followed
C19_FifoEviction ==
  [][LET k == Len(added')
         n == Smaller(k, max_exchanges')
     IN /\ exchanges' = SubSeq(added', k - n + 1, k)
        /\ GetLastExchange =>
             last_read'.exchange = (IF k = 0 THEN 0 ELSE added'[k].serial)
        /\ (GetLastExchange \/ GetRecentContext) =>
             /\ last_read'.exchange # 0 => last_read'.exchange > k - max_exchanges
             /\ \A i \in 1..Len(last_read'.listed) :
                  last_read'.listed[i] > k - max_exchanges]_vars

\* the first exchange has been evicted from a memory of capacity 2 and the
\* last one added has been read
C19_Witness ==
  /\ max_exchanges = 2
  /\ Len(added) = 3
  /\ exchanges = SubSeq(added, 2, 3)
  /\ last_read.op = "get_last_exchange"
  /\ last_read.exchange = 3

\* C20: get_cached_schema returns the snapshot that cache_schema stored t
\* seconds before exactly when t is below the freshness window of 300 s; for
\* every t from 300 s on, a day and more included, it returns None (checked
\* for the snapshots that hold tables)
C20_FreshWindow ==
  [][(GetCachedSchema /\ Truthy(schema_cache)) =>
       LET t == now - schema_cache_time
       IN /\ last_read'.schema = schema_cache <=> t < FreshnessWindow
          /\ t >= FreshnessWindow => last_read'.schema = NoSchema]_vars

\* C21: get_cached_schema called right after cache_schema(schema), before
\* the clock has moved, returns the schema stored last, whatever the schema
\* is, the empty mapping included
C21_CacheRoundTrip ==
  [][(GetCachedSchema /\ schema_cache # NoSchema /\ schema_cache_time = now)
       => last_read'.schema = schema_cache]_vars

(***************************************************************************)
(* Properties of add_safety_limits                                         *)
(***************************************************************************)
\* the statement has a LIMIT clause: the keyword stands in it as a word
HasLimitClause(sql) == SearchWord(LimitKw, ToUpper(sql))

HasOrderBy(sql) == Contains(ToUpper(sql), OrderByKw)

\* the text ends with the clause LIMIT max_results, a `;` or a line end at
\* most after it
EndsWithLimit(text) ==
  \E tail \in {<<>>, <<";">>, <<"\n">>} :
    LET clause == LimitClause(max_results) \o tail
    IN  /\ Len(text) >= Len(clause)
        /\ HasAt(text, Len(text) - Len(clause) + 1, clause)

\* C22: for a statement without a LIMIT clause add_safety_limits returns the
\* statement with LIMIT max_results in it: after the ORDER BY clause when
\* there is one, otherwise at the end in place of the trailing `;`; a
\* statement with a LIMIT clause comes back unchanged
C22_LimitAdded ==
  limit_results # <<>> =>
    LET out == limit_results[1]
    IN  IF HasLimitClause(sql_text) THEN out = sql_text
        ELSE /\ Contains(out, LimitClause(max_results))
             /\ HasOrderBy(sql_text) =>
                  \E i, j \in 1..Len(out) :
                    /\ i < j
                    /\ HasAt(ToUpper(out), i, OrderByKw)
                    /\ HasAt(out, j, LimitClause(max_results))
             /\ ~HasOrderBy(sql_text) =>
                  out \in { RStripSemicolons(sql_text) \o LimitClause(max_results)
                              \o tail : tail \in {<<>>, <<";">>} }

\* C23: add_safety_limits applied to its own result returns that result, and
\* a statement that has a LIMIT clause comes back unchanged
C23_Idempotent ==
  /\ Len(limit_results) = 2 => limit_results[2] = limit_results[1]
  /\ (limit_results # <<>> /\ HasLimitClause(sql_text)) =>
       limit_results[1] = sql_text

\* a statement without LIMIT got its clause at the first call and came back
\* unchanged from the second
C23_Witness ==
  /\ Len(limit_results) = 2
  /\ ~HasLimit(sql_text)
  /\ limit_results[1] # sql_text
  /\ EndsWithLimit(limit_results[1])
  /\ limit_results[2] = limit_results[1]

(***************************************************************************)
(* Dispatch: ToolRegistry.execute_tool down to the tool's execute          *)
(***************************************************************************)
\* the parameters each registered tool declares: name, required, default
ToolParameter(n, r, d) == [name |-> n, required |-> r, default |-> d]

DeclaredParams(tool_name) ==
  IF tool_name = "execute_sql_query"
  THEN { ToolParameter("sql", TRUE, NoneValue),
         ToolParameter("limit", FALSE, "1000"),
         ToolParameter("explain_plan", FALSE, "False") }
  ELSE { ToolParameter("include_system_tables", FALSE, "False") }

DeclaredNames(tool_name) == { p.name : p \in DeclaredParams(tool_name) }

DefaultOf(tool_name, k) ==
  (CHOOSE p \in DeclaredParams(tool_name) : p.name = k).default

\* validate_parameters when it returns: one (name, value) entry per declared
\* parameter, the supplied value or, when that is None, the default
ValidateParameters(tool_name, parameters) ==
  { <<k, IF KwargsGet(parameters, k) = NoneValue
         THEN DefaultOf(tool_name, k)
         ELSE KwargsGet(parameters, k)>> : k \in DeclaredNames(tool_name) }

\* whether the tool's execute was called, and with which keyword arguments
NotInvoked == [invoked |-> FALSE, kwargs |-> {}]

Received(tool_name, parameters) ==
  IF \/ BindingRaises(parameters)
     \/ tool_name \notin RegisteredTools
     \/ ValidationRaises(tool_name, parameters)
  THEN NotInvoked
  ELSE [invoked |-> TRUE, kwargs |-> ValidateParameters(tool_name, parameters)]

\* the argument maps a caller sends: each key absent, null or with a value
ArgChoices ==
  [ sql : {"absent", NoneValue, "q1"},
    limit : {"absent", NoneValue, "5"},
    format : {"absent", "json"},
    tool_name : {"absent", "x"} ]

PairOf(k, v) == IF v = "absent" THEN <<>> ELSE << <<k, v>> >>

ArgList(c) ==
  PairOf("sql", c.sql) \o PairOf("limit", c.limit)
    \o PairOf("format", c.format) \o PairOf("tool_name", c.tool_name)

ArgMaps == { ArgList(c) : c \in ArgChoices }

MaxDispatch == 2

\* execution_record as appended to execution_history
ExecutionRecord(tool_name, parameters, result) ==
  [tool_name |-> tool_name, parameters |-> parameters,
   success |-> result.success]

\* one call of execute_tool(tool_name, **parameters)
Dispatch ==
  /\ Len(dispatched) < MaxDispatch
  /\ \E tool_name \in RegisteredTools \cup {UnknownTool},
        parameters \in ArgMaps, behaviour \in ToolBehaviours :
       LET result == ExecuteTool(tool_name, parameters, behaviour)
       IN  /\ dispatched' =
                Append(dispatched,
                       [tool_name |-> tool_name, parameters |-> parameters,
                        behaviour |-> behaviour,
                        received |-> Received(tool_name, parameters),
                        result |-> result])
           /\ execution_history' =
                IF BindingRaises(parameters) \/ tool_name \notin RegisteredTools
                THEN execution_history
                ELSE Append(execution_history,
                            ExecutionRecord(tool_name, parameters, result))
  /\ UNCHANGED <<orchVars, sqlVars, memVars, limit_results, promptVars,
                 sigVars, histVars, peerVars>>

\* clear_history
ClearHistory ==
  /\ execution_history # <<>>
  /\ execution_history' = <<>>
  /\ UNCHANGED <<orchVars, sqlVars, memVars, limit_results, dispatched,
                 promptVars, sigVars, histVars, peerVars>>

DispatchNext == Dispatch \/ ClearHistory

DispatchSpec == Init /\ [][DispatchNext]_vars

\* C24: every call dispatched to a registered tool was validated first: with a
\* required parameter missing or null the result is a failed ToolResult and
\* the tool was not invoked; otherwise the tool received exactly its declared
\* parameters, each supplied non-null value as sent and every other one as its
\* declared default.
C24_ValidatedDispatch ==
  \A i \in 1..Len(dispatched) :
    LET d == dispatched[i]
    IN  d.tool_name \in RegisteredTools =>
          IF \E p \in DeclaredParams(d.tool_name) :
               p.required /\ KwargsGet(d.parameters, p.name) = NoneValue
          THEN /\ ~d.result.raised /\ ~d.result.success
               /\ d.received = NotInvoked
          ELSE /\ d.received.invoked
               /\ { kv[1] : kv \in d.received.kwargs } = DeclaredNames(d.tool_name)
               /\ \A p \in DeclaredParams(d.tool_name) :
                    <<p.name, IF KwargsGet(d.parameters, p.name) = NoneValue
                              THEN p.default
                              ELSE KwargsGet(d.parameters, p.name)>>
                      \in d.received.kwargs

\* the call a Dispatch step has just made
LastDispatched == dispatched'[Len(dispatched')]

\* C25: the execution history is append-only: every step of the registry keeps
\* the records it held, in place and unaltered, and a call of execute_tool on
\* a registered tool adds exactly one record at the end, whose success flag is
\* that of the result the call returned.
C25_AppendOnly ==
  [][/\ Len(execution_history') >= Len(execution_history)
     /\ SubSeq(execution_history', 1, Len(execution_history)) = execution_history
     /\ (/\ Len(dispatched') = Len(dispatched) + 1
         /\ LastDispatched.tool_name \in RegisteredTools)
          => /\ Len(execution_history') = Len(execution_history) + 1
             /\ execution_history'[Len(execution_history')].tool_name
                  = LastDispatched.tool_name
             /\ execution_history'[Len(execution_history')].success
                  = LastDispatched.result.success
             /\ ~LastDispatched.result.raised]_vars

\* the same step object: its kind, tool and parameters (the result of a
\* tool_call step is filled in after it was yielded)
SameStep(a, b) ==
  /\ a.step_type = b.step_type
  /\ a.tool_name = b.tool_name
  /\ a.parameters = b.parameters
  /\ a.retry_attempt = b.retry_attempt

\* the steps of emitted all occur in recorded, in the same order
RECURSIVE EmittedIn(_, _)
EmittedIn(emitted, recorded) ==
  IF emitted = <<>> THEN TRUE
  ELSE IF recorded = <<>> THEN FALSE
  ELSE IF SameStep(Head(emitted), Head(recorded))
       THEN EmittedIn(Tail(emitted), Tail(recorded))
       ELSE EmittedIn(emitted, Tail(recorded))

\* C26: when a session has ended, every step that was emitted during it
\* (tool_call, analysis, conclusion, retry or error) is in the recorded step
\* sequence, in emission order, so that total_steps counts every emitted step
C26_EmittedStepsRecorded ==
  pc = "done" =>
    /\ EmittedIn(yielded, current_investigation)
    /\ Len(current_investigation) >= Len(yielded)

\* C27: a step is yielded only once it is final: every tool_call step the
\* consumer has received carries its result, and the recorded form of a step
\* has the very fields it was yielded with
C27_YieldedFinal ==
  /\ \A i \in 1..Len(yielded) :
       yielded[i].step_type = "tool_call" => yielded[i].result # "none"
  /\ \A i \in 1..Len(yielded), j \in 1..Len(current_investigation) :
       SameStep(yielded[i], current_investigation[j])
         => yielded[i].result = current_investigation[j].result

\* C28: once a tool invocation has returned its ToolResult, on the success
\* path and on every failure path, every connection it acquired is closed
C28_ConnectionsClosed ==
  tool_run # "none" => conn_open = 0

(***************************************************************************)
(* The conversation-memory tool                                            *)
(***************************************************************************)
\* GetConversationContextTool.name
MemoryTool == "get_conversation_context"

\* the names _register_all_tools registers besides the two of RegisteredTools
OtherRegisteredTools ==
  {"describe_table", "get_table_sample_data", "estimate_table_size",
   "validate_sql_syntax", "explain_query_plan", "optimize_query",
   "get_column_statistics", "detect_data_anomalies", "find_correlations",
   "analyze_data_quality", "generate_drill_down_queries",
   "compare_time_periods", "detect_seasonal_patterns", "generate_chart",
   "suggest_visualization", "generate_bar_chart", "generate_line_chart",
   "generate_pie_chart", "generate_scatter_plot", "get_key_business_metrics",
   "generate_business_summary", "detect_revenue_anomalies",
   "detect_time_pattern_anomalies", "detect_customer_behavior_anomalies"}

\* ToolRegistry.tools after construction: list_tools(), and the names of the
\* definitions get_tool_definitions() hands to the external service
ListTools == RegisteredTools \cup OtherRegisteredTools

\* the requests for the memory tool the external service may make
MemoryParts ==
  { CallPart(MemoryTool, <<>>),
    CallPart(MemoryTool, << <<"num_exchanges", "3">> >>) }

\* the model asks for the memory tool: `if not self.tool_registry.get_tool(
\* tool_name): continue`, else the call goes the way of every call
RecallRequest ==
  \E p \in MemoryParts :
    IF p.name \in ListTools
    THEN NewCallOf(p) \/ DuplicateCallOf(p)
    ELSE SkipCallOf(p)

\* the sessions of IdleSpec, in which the model may also ask for the memory
\* tool
RecallNext == IdleNext \/ RecallRequest

RecallSpec == Init /\ [][RecallNext]_vars

\* C29: the memory tool is among the registered tools, and a model request
\* for it is handed to the registry's execute_tool, not skipped
C29_MemoryToolRegistered ==
  [][RecallRequest =>
       /\ MemoryTool \in ListTools
       /\ Len(registry_calls') = Len(registry_calls) + 1
       /\ registry_calls'[Len(registry_calls')].tool_name = MemoryTool]_vars

(***************************************************************************)
(* Sessions on a range of queries                                          *)
(***************************************************************************)
\* the pieces the queries are put together from
QueryWords ==
  { <<"f", "i", "n", "d">>, <<"U", "n", "u", "s", "u", "a", "l">>,
    <<"T", "R", "E", "N", "D">>, <<"o", "d">>, <<"d">>, <<" ">>,
    <<"s", "a", "l", "e", "s">>, <<"t", "o", "p", " ", "1", "0">> }

MaxWords == 2

\* every concatenation of at most n of them
RECURSIVE QueryTexts(_)
QueryTexts(n) ==
  IF n = 0 THEN {<<>>}
  ELSE LET shorter == QueryTexts(n - 1)
       IN  shorter \cup { s \o t : s \in shorter, t \in QueryWords }

Queries == QueryTexts(MaxWords) \cup {FindUnusualRevenuePatterns}

PromptInit ==
  /\ OrchInit /\ sql_text = <<>> /\ SqlIdle /\ MemIdle
  /\ limit_results = <<>> /\ dispatched = <<>> /\ execution_history = <<>>
  /\ user_query \in Queries /\ first_prompt = NoPrompt
  /\ cancel_signal = FALSE
  /\ issued = <<>>
  /\ other_session = "none"

\* the sessions of IdleSpec, on each of the queries
PromptSpec == PromptInit /\ [][IdleNext]_vars

\* the prompt holds the anomaly-priority instruction block
HasAnomalyBlock(prompt) ==
  \E i \in 1..Len(prompt) : prompt[i] = AnomalyInstructions

\* C30: the first planning prompt holds the anomaly-priority block if and
\* only if the lowercased query contains one of the anomaly keywords, so it
\* does for "find unusual revenue patterns"; the query is spelled out in the
\* prompt; and after the prompt was composed the classification plays no part:
\* no step of the loop changes the query or the prompt, and every step of a
\* session is a step of the loop of IdleNext, whose actions read neither
C30_AnomalyBlock ==
  /\ [](pc # "idle" =>
          /\ HasAnomalyBlock(first_prompt)
               <=> (\E keyword \in anomaly_keywords :
                      Contains(ToLower(user_query), keyword))
          /\ user_query = FindUnusualRevenuePatterns
               => HasAnomalyBlock(first_prompt)
          /\ \E i \in 1..Len(first_prompt) :
               SubSeq(first_prompt, i, i + Len(user_query) - 1) = user_query)
  /\ [][/\ user_query' = user_query
        /\ pc # "idle" => first_prompt' = first_prompt]_vars

\* a session on an anomaly query written in capitals has ended: its prompt
\* held the block, and a tool call was accepted and executed
C30_Witness ==
  /\ pc = "done"
  /\ user_query = <<"T", "R", "E", "N", "D", "s", "a", "l", "e", "s">>
  /\ HasAnomalyBlock(first_prompt)
  /\ tools_executed_count = 1

(***************************************************************************)
(* Cancellation                                                            *)
(***************************************************************************)
\* the caller signals cancellation while a session runs; no statement of
\* autonomous_investigation reads the signal
SignalCancel ==
  /\ pc \notin {"idle", "done"}
  /\ ~cancel_signal
  /\ cancel_signal' = TRUE
  /\ UNCHANGED <<orchVars, sqlVars, memVars, limit_results, regVars,
                 promptVars, histVars, peerVars>>

\* the sessions of IdleSpec, cancelled at any point
CancelNext == IdleNext \/ SignalCancel

CancelSpec == Init /\ [][CancelNext]_vars

\* C31: once cancellation is signalled, no further model call, synthesis call
\* or tool execution is started, and the next step the session emits is a
\* terminal error step
C31_CancellationObserved ==
  [][cancel_signal =>
       /\ model_calls' <= model_calls
       /\ synthesis_calls' <= synthesis_calls
       /\ Len(registry_calls') <= Len(registry_calls)
       /\ Len(yielded') > Len(yielded)
            => yielded'[Len(yielded')].step_type = "error"]_vars

\* C32: a step that skips a call naming an unregistered tool leaves the
\* registry calls, the recorded and the emitted steps, the executed
\* signatures, tools_executed_count and the duplicate streak as they were,
\* and goes on with the remaining parts of the response
C32_UnknownToolSkipped ==
  [][(\E p \in Parts : p.name = UnknownTool /\ SkipCallOf(p)) =>
       /\ UNCHANGED <<registry_calls, current_investigation, yielded,
                      executed_tool_signatures, tools_executed_count,
                      duplicate_call_count>>
       /\ parts_left' = parts_left - 1
       /\ pc' = "parts"]_vars

\* a function call of the first response was taken up and skipped: nothing
\* was emitted, recorded or executed, and a part of the response remains
C32_Witness ==
  /\ pc = "parts"
  /\ had_function_call
  /\ model_calls = 1
  /\ parts_left = 1
  /\ yielded = <<>>
  /\ registry_calls = <<>>
  /\ executed_tool_signatures = {}

\* an error step has been emitted in the session
ErrorEmitted == \E i \in 1..Len(yielded) : yielded[i].step_type = "error"

\* C33: an error step is terminal: once one has been emitted, the session
\* makes no further call of the external service and emits no further step
C33_ErrorIsTerminal ==
  [][ErrorEmitted =>
       /\ model_calls' <= model_calls
       /\ synthesis_calls' <= synthesis_calls
       /\ Len(yielded') <= Len(yielded)]_vars

\* the first response of the session has been processed, and the step
\* recorded last from it is an analysis
AnalysisRecorded ==
  /\ pc = "parts" /\ parts_left = 0
  /\ model_calls = 1
  /\ current_investigation # <<>>
  /\ current_investigation[Len(current_investigation)].step_type = "analysis"

\* C34: when a response from which an analysis was recorded has been
\* processed, no cap being reached, the orchestrator returns to the head of
\* the loop to call the model again
C34_AnalysisReturnsToPlanning ==
  [][(AnalysisRecorded /\ pc' # pc) => pc' = "loop"]_vars

(***************************************************************************)
(* The loop state at each model call                                       *)
(***************************************************************************)
\* the loop state a tool-enabled model call is issued in
LoopState ==
  [iteration |-> iteration', empty_call_count |-> empty_call_count',
   duplicate_call_count |-> duplicate_call_count',
   current_investigation |-> current_investigation',
   executed_tool_signatures |-> executed_tool_signatures']

\* the head of the loop; when it issues the model call, the loop state of
\* that moment and the number of retried calls so far are noted
LoopTopNoted ==
  /\ LoopHead
  /\ issued' = IF pc' = "await_model"
               THEN Append(issued, [loop |-> LoopState,
                                    retried_calls |-> retried_calls])
               ELSE issued
  /\ UNCHANGED <<slept, sqlVars, memVars, limit_results, regVars, promptVars,
                 sigVars, peerVars>>

\* the sessions of RetrySpec, with the loop state noted at every call
RoundNext ==
  \/ StartSession
  \/ LoopTopNoted
  \/ RetryRateLimited
  \/ ModelReturnsNoCandidates
  \/ PostLoop

RoundSpec == Init /\ [][RoundNext]_vars

\* C35: a rate-limited round that is retried leaves the loop state as it was:
\* the retried call is issued with the iteration counter, the empty-call
\* streak, the duplicate streak, the recorded steps and the executed
\* signatures with which the failed call was issued
C35_RetryKeepsLoopState ==
  \A k \in 1..(Len(issued) - 1) :
    issued[k + 1].retried_calls = issued[k].retried_calls + 1
      => issued[k + 1].loop = issued[k].loop

(***************************************************************************)
(* Two calls of autonomous_investigation on the one instance the HTTP      *)
(* layer shares                                                            *)
(***************************************************************************)
\* the first call is suspended in an await: the model call, the tool call
\* or the synthesis call
Suspended == pc \in {"await_model", "await_tool", "await_synth"}

\* the tool call the second request's session makes
OtherPart == CallPart("execute_sql_query", << <<"sql", "q2">> >>)

\* a second request reaches the head of autonomous_investigation while the
\* first is suspended: the step list and the signature set of the shared
\* instance are assigned anew
OtherSessionStarts ==
  /\ Suspended
  /\ other_session = "none"
  /\ current_investigation' = <<>>
  /\ executed_tool_signatures' = {}
  /\ other_session' = "running"
  /\ UNCHANGED <<pc, session, iteration, empty_call_count,
                 duplicate_call_count, retry_count, tools_executed_count,
                 parts_left, had_function_call, pending, yielded, model_calls,
                 retried_calls, synthesis_calls, registry_calls, slept>>
  /\ UNCHANGED <<sqlVars, memVars, limit_results, regVars, promptVars,
                 sigVars, histVars>>

\* the second session executes its tool call while the first is suspended:
\* signature, counter and step go to the fields of the shared instance
OtherSessionRecords ==
  /\ Suspended
  /\ other_session = "running"
  /\ executed_tool_signatures' =
       executed_tool_signatures
         \cup {ToolSignature(OtherPart.name, OtherPart.args)}
  /\ current_investigation' =
       Append(current_investigation,
              Step("tool_call", OtherPart.name, OtherPart.args, "success"))
  /\ tools_executed_count' = tools_executed_count + 1
  /\ other_session' = "recorded"
  /\ UNCHANGED <<pc, session, iteration, empty_call_count,
                 duplicate_call_count, retry_count,
                 parts_left, had_function_call, pending, yielded, model_calls,
                 retried_calls, synthesis_calls, registry_calls, slept>>
  /\ UNCHANGED <<sqlVars, memVars, limit_results, regVars, promptVars,
                 sigVars, histVars>>

ShareNext == IdleNext \/ OtherSessionStarts \/ OtherSessionRecords

ShareSpec == Init /\ [][ShareNext]_vars

\* the registry calls of the session that have returned a result
Returned(calls) ==
  {k \in DOMAIN calls : calls[k].outcome \in {"success", "failed"}}

\* C36: with a second session interleaved at the awaits, the step list and
\* the signature set the first session works on hold its own steps and
\* signatures only and all of them: every recorded step is one the session
\* emitted, every call of it that returned is recorded, and the signatures
\* are exactly those of the calls it handed to the registry
C36_SessionsIsolated ==
  /\ \A k \in DOMAIN current_investigation :
       \E j \in DOMAIN yielded : SameStep(yielded[j], current_investigation[k])
  /\ \A k \in Returned(registry_calls) :
       \E j \in DOMAIN current_investigation :
         /\ current_investigation[j].step_type = "tool_call"
         /\ current_investigation[j].tool_name = registry_calls[k].tool_name
         /\ current_investigation[j].parameters = registry_calls[k].parameters
  /\ executed_tool_signatures =
       {ToolSignature(registry_calls[k].tool_name,
                      registry_calls[k].parameters) : k \in DOMAIN registry_calls}

\* C37: the recorded step list holds at most one conclusion step, and a
\* conclusion step in it is its last element
C37_OneConclusionLast ==
  \A k \in DOMAIN current_investigation :
    current_investigation[k].step_type = "conclusion"
      => k = Len(current_investigation)

\* a session that recorded a tool call and an analysis, and then its conclusion
C37_Witness ==
  /\ pc = "done"
  /\ Len(current_investigation) >= 3
  /\ current_investigation[Len(current_investigation)].step_type = "conclusion"
  /\ HasStep(current_investigation, "tool_call")
  /\ HasStep(current_investigation, "analysis")

\* C38: when is_safe_sql rejects the text, DatabaseManager.execute_query
\* raises and execute_sql_query returns a failed result, whatever the
\* database would do; no connection is opened and no statement is sent,
\* neither the text as given nor a rewritten one
C38_RejectedNothingDone ==
  ~is_safe_sql(sql_text) =>
    /\ \A db \in DbBehaviours :
         LET results == ExecuteQuery("execute_query", sql_text, TRUE, {}, db)
         IN  results.raised /\ results.sent = <<>> /\ results.acquired = 0
    /\ tool_run \in {"execute_sql_query"} \cup ChartTools =>
         /\ tool_result = "failed"
         /\ db_sent = <<>>
         /\ conn_acquired = 0
         /\ conn_open = 0

\* execute_sql_query has run on a text the gate rejects
C38_Witness ==
  /\ ~is_safe_sql(sql_text)
  /\ tool_run = "execute_sql_query"
  /\ tool_result = "failed"

\* the row limits a statement carries: the number after each LIMIT keyword
LimitValues(statement) ==
  { ParseInt(statement, j + Len(LimitKw) + 1, DigitsEnd(statement, j)) :
      j \in { i \in 1..Len(statement) : LimitDigitsAt(statement, i) } }

\* the statements execute_sql_query fetches when called with this limit
BuiltWith(limit) ==
  {SafeSqlFor(sql_text, limit),
   ExplainAnalyzePrefix \o SafeSqlFor(sql_text, limit)}

\* C39: every statement execute_sql_query has sent was built with one of the
\* limit arguments, and every LIMIT value in it is at most the smaller of
\* that argument and max_results = 1000, whatever LIMIT the caller's SQL
\* already held
C39_SentLimitBounded ==
  tool_run = "execute_sql_query" =>
    \A k \in DOMAIN db_sent :
      \E limit \in QueryLimits :
        /\ db_sent[k].statement \in BuiltWith(limit)
        /\ \A v \in LimitValues(db_sent[k].statement) :
             v <= limit /\ v <= max_results

\* C40: for every n >= 0, get_recent_context(n) covers at most n exchanges:
\* the n most recently added ones in insertion order, and all the stored
\* ones when fewer than n are stored
C40_RecentAtMostN ==
  [][\A n \in NumExchanges :
       GetRecentContextOf(n) =>
         LET stored == Len(exchanges)
             covered == IF n < stored THEN n ELSE stored
         IN  /\ Len(last_read'.listed) <= n
             /\ last_read'.listed =
                  [i \in 1..covered |-> exchanges[stored - covered + i].serial]]_vars

====
